---- MODULE Spec2Model ----
(***************************************************************************)
(* Frame loader of jxl-frame (crates/jxl-frame/src/lib.rs): the serial     *)
(* loaders load_all / load_cropped, the parallel loader load_cropped_par,  *)
(* the section dispatcher read_group, the pending buffer and               *)
(* FrameData::complete.                                                    *)
(***************************************************************************)
EXTENDS Integers, Sequences, FiniteSets, TLC

(***************************************************************************)
(* Option<T> and Result<T, E>.                                             *)
(***************************************************************************)
None == <<>>
Some(v) == <<v>>
IsSome(o) == o # <<>>
Unwrap(o) == o[1]

Ok(v) == <<"Ok", v>>
Err(e) == <<"Err", e>>
IsOk(r) == r[1] = "Ok"
IsErr(r) == r[1] = "Err"
Val(r) == r[2]

IoError == <<"Io", <<>>>>
ParseError(kind) == <<"Parse", kind>>
IncompleteFrameData(field) == <<"IncompleteFrameData", field>>

Range(s) == {s[i] : i \in 1..Len(s)}

(***************************************************************************)
(* u32 values are pairs <<hi, lo>> of 16-bit halves, so that the whole     *)
(* 32-bit range and its overflow can be computed.                          *)
(***************************************************************************)
Half == 2^16
U32(n) == <<n \div Half, n % Half>>
U32Max == <<Half - 1, Half - 1>>
U32Zero == <<0, 0>>
U32Lt(a, b) == a[1] < b[1] \/ (a[1] = b[1] /\ a[2] < b[2])
U32Gt(a, b) == U32Lt(b, a)
\* a + b as <<carry, hi, lo>>
U32Sum(a, b) ==
    LET lo == a[2] + b[2]
        hi == a[1] + b[1] + (lo \div Half)
    IN  <<hi \div Half, hi % Half, lo % Half>>
U32Overflows(a, b) == U32Sum(a, b)[1] = 1
U32WrappingAdd(a, b) == <<U32Sum(a, b)[2], U32Sum(a, b)[3]>>
\* a - b for a >= b
U32Diff(a, b) ==
    LET borrow == IF a[2] < b[2] THEN 1 ELSE 0
    IN  <<a[1] - b[1] - borrow, a[2] + borrow * Half - b[2]>>

(***************************************************************************)
(* TocGroupKind and TocGroup.                                              *)
(***************************************************************************)
KindAll == <<"All", 0, 0>>
KindLfGlobal == <<"LfGlobal", 0, 0>>
KindLfGroup(idx) == <<"LfGroup", 0, idx>>
KindHfGlobal == <<"HfGlobal", 0, 0>>
KindGroupPass(pass_idx, group_idx) == <<"GroupPass", pass_idx, group_idx>>

TocGroup(kind, offset, size) == [kind |-> kind, offset |-> offset, size |-> size]

(***************************************************************************)
(* Bitstream: a byte source and a read position.  skip_to_bookmark and     *)
(* read_bytes_aligned are the two suspension points of the loaders; io_ok  *)
(* is FALSE when the underlying reader fails.                              *)
(***************************************************************************)
BadByte == 255
Bitstream(src) == [src |-> src, pos |-> 0]
skip_to_bookmark(bs, offset, io_ok) ==
    IF io_ok /\ offset >= bs.pos /\ offset <= Len(bs.src)
    THEN Ok([bs EXCEPT !.pos = offset])
    ELSE Err(IoError)
read_bytes_aligned(bs, n, io_ok) ==
    IF io_ok /\ bs.pos + n <= Len(bs.src)
    THEN Ok(<<SubSeq(bs.src, bs.pos + 1, bs.pos + n), [bs EXCEPT !.pos = bs.pos + n]>>)
    ELSE Err(IoError)

\* read_bits!(bitstream, Bundle(T), params): the section parser of `kind`
\* consumes `n` bytes at the read position; a BadByte is malformed input.
read_bits(bs, kind, n, io_ok) ==
    LET parse(r) ==
            IF ~IsOk(r) THEN [r |-> r, bs |-> bs]
            ELSE IF BadByte \in Range(Val(r)[1])
                 THEN [r |-> Err(ParseError(kind)), bs |-> Val(r)[2]]
                 ELSE [r |-> Ok(Val(r)[1]), bs |-> Val(r)[2]]
    IN  parse(read_bytes_aligned(bs, n, io_ok))

(***************************************************************************)
(* Frame header: the fields the loaders read.                              *)
(***************************************************************************)
Modular == "Modular"
VarDct == "VarDct"
has_hf_global(hd) == hd.encoding = VarDct
lf_group_dim(hd) == hd.lf_group_dim
lf_groups_per_row(hd) == hd.lf_groups_per_row
group_dim(hd) == hd.group_dim
groups_per_row(hd) == hd.groups_per_row

\* Frame::parse: pass_idx -> (minshift, maxshift)
RECURSIVE trailing_zeros(_)
trailing_zeros(n) == IF n = 0 THEN 32 ELSE IF n % 2 = 1 THEN 0 ELSE 1 + trailing_zeros(n \div 2)
RECURSIVE pass_shifts_from(_, _, _, _)
pass_shifts_from(passes, i, maxshift, acc) ==
    IF i > Len(passes.downsample) \/ i > Len(passes.last_pass)
    THEN (passes.num_passes - 1 :> <<0, maxshift>>) @@ acc
    ELSE LET minshift == trailing_zeros(passes.downsample[i])
         IN  pass_shifts_from(passes, i + 1, minshift,
                              (passes.last_pass[i] :> <<minshift, maxshift>>) @@ acc)
pass_shifts(hd) == pass_shifts_from(hd.passes, 1, 3, <<>>)

(***************************************************************************)
(* Section parsers.  The parsed value records every input the parser was   *)
(* given, so two parses agree only if they had the same bytes and the      *)
(* same parameters.                                                        *)
(***************************************************************************)
SectionLen(hd, kind) ==
    IF kind[1] = "HfGlobal" /\ ~has_hf_global(hd) THEN 0 ELSE 2

has_squeeze(lfg) == lfg.src[2] \in {1, 3}
has_delta_palette(lfg) == lfg.src[2] \in {2, 3}

read_lf_global(hd, bs, io_ok) ==
    LET bundle(p) ==
            IF ~IsOk(p.r) THEN p
            ELSE [r |-> Ok([src |-> Val(p.r), copied |-> <<>>, inverse_applied |-> 0]),
                  bs |-> p.bs]
    IN  bundle(read_bits(bs, KindLfGlobal, SectionLen(hd, KindLfGlobal), io_ok))

read_lf_group(hd, bs, lfg, lf_group_idx, io_ok) ==
    LET bundle(p) ==
            IF ~IsOk(p.r) THEN p
            ELSE [r |-> Ok([lf_group_idx |-> lf_group_idx, lf_global |-> lfg.src,
                            mlf_group |-> <<"mlf_group", lf_group_idx, Val(p.r)>>]),
                  bs |-> p.bs]
    IN  bundle(read_bits(bs, KindLfGroup(lf_group_idx),
                         SectionLen(hd, KindLfGroup(lf_group_idx)), io_ok))

read_hf_global(hd, bs, io_ok) ==
    IF has_hf_global(hd)
    THEN [r |-> <<"Panic", "not yet implemented">>, bs |-> bs]
    ELSE [r |-> Ok(None), bs |-> bs]

read_group_pass(hd, bs, lfg, hfg, pass_idx, group_idx, io_ok) ==
    LET shift(shifts) ==
            IF pass_idx \in DOMAIN shifts THEN Some(shifts[pass_idx]) ELSE None
        bundle(p) ==
            IF ~IsOk(p.r) THEN p
            ELSE [r |-> Ok([pass_idx |-> pass_idx, group_idx |-> group_idx,
                            lf_global |-> lfg.src, hf_global |-> hfg,
                            shift |-> shift(pass_shifts(hd)),
                            modular |-> <<"modular", pass_idx, group_idx, Val(p.r)>>]),
                  bs |-> p.bs]
    IN  bundle(read_bits(bs, KindGroupPass(pass_idx, group_idx),
                         SectionLen(hd, KindGroupPass(pass_idx, group_idx)), io_ok))

(***************************************************************************)
(* FrameData.                                                              *)
(***************************************************************************)
MapInsert(m, k, v) == (k :> v) @@ m

\* FrameData::new
FrameData_new(hd) ==
    [lf_global |-> None,
     lf_group |-> <<>>,
     hf_global |-> IF has_hf_global(hd) THEN None ELSE Some(None),
     group_pass |-> <<>>]

(***************************************************************************)
(* Frame::read_group on the frame state (data, pending_groups): returns    *)
(* the result, the new frame state and the new bitstream.                  *)
(***************************************************************************)
\* fn try_pending_blocks: "TODO: parse pending blocks"
try_pending_blocks(fd, pg) ==
    [r |-> Ok(<<>>), data |-> fd, pending_groups |-> pg]

Outcome(r, fd, pg, bs) ==
    [r |-> r, data |-> fd, pending_groups |-> pg, bs |-> bs]

\* the four parsers of an All section in sequence, each `?` returning early
read_group_All(hd, fd, pg, bs, io_ok) ==
    LET stop(p) == Outcome(p.r, fd, pg, p.bs)
        store(lfg, p2, hfg, p4) ==
            IF ~IsOk(p4.r) THEN stop(p4)
            ELSE Outcome(Ok(<<>>),
                         [lf_global |-> Some(lfg),
                          lf_group |-> MapInsert(fd.lf_group, 0, Val(p2.r)),
                          hf_global |-> Some(hfg),
                          group_pass |-> MapInsert(fd.group_pass, <<0, 0>>, Val(p4.r))],
                         pg, p4.bs)
        after_hf_global(lfg, p2, p3) ==
            IF ~IsOk(p3.r) THEN stop(p3)
            ELSE store(lfg, p2, Val(p3.r),
                       read_group_pass(hd, p3.bs, lfg, Val(p3.r), 0, 0, io_ok))
        after_lf_group(lfg, p2) ==
            IF ~IsOk(p2.r) THEN stop(p2)
            ELSE after_hf_global(lfg, p2, read_hf_global(hd, p2.bs, io_ok))
        after_lf_global(p1) ==
            IF ~IsOk(p1.r) THEN stop(p1)
            ELSE after_lf_group(Val(p1.r),
                                read_lf_group(hd, p1.bs, Val(p1.r), 0, io_ok))
    IN  after_lf_global(read_lf_global(hd, bs, io_ok))

read_group_LfGlobal(hd, fd, pg, bs, io_ok) ==
    LET pending_blocks(p, t) == Outcome(t.r, t.data, t.pending_groups, p.bs)
        store(p) ==
            IF ~IsOk(p.r) THEN Outcome(p.r, fd, pg, p.bs)
            ELSE pending_blocks(p, try_pending_blocks(
                                       [fd EXCEPT !.lf_global = Some(Val(p.r))], pg))
    IN  store(read_lf_global(hd, bs, io_ok))

\* a park whose buffer is one byte short
park_truncated(fd, pg, bs, group, io_ok) ==
    LET insert(b) ==
            IF ~IsOk(b) THEN Outcome(b, fd, pg, bs)
            ELSE Outcome(Ok(<<>>), fd,
                         MapInsert(pg, group.kind, SubSeq(Val(b)[1], 1, group.size - 1)),
                         Val(b)[2])
    IN  insert(read_bytes_aligned(bs, group.size, io_ok))

\* the let-else arm of LfGroup and GroupPass: park the raw bytes
park(fd, pg, bs, group, io_ok) ==
    LET insert(b) ==
            IF ~IsOk(b) THEN Outcome(b, fd, pg, bs)
            ELSE Outcome(Ok(<<>>), fd, MapInsert(pg, group.kind, Val(b)[1]), Val(b)[2])
    IN  insert(read_bytes_aligned(bs, group.size, io_ok))

\* an LfGroup arm that parks the section whether lf_global is present or not
read_group_LfGroup_parking(hd, fd, pg, bs, group, io_ok) ==
    park(fd, pg, bs, group, io_ok)

read_group_LfGroup(hd, fd, pg, bs, group, io_ok) ==
    LET lf_group_idx == group.kind[3]
        store(p) ==
            IF ~IsOk(p.r) THEN Outcome(p.r, fd, pg, p.bs)
            ELSE Outcome(Ok(<<>>),
                         [fd EXCEPT !.lf_group = MapInsert(@, lf_group_idx, Val(p.r))],
                         pg, p.bs)
    IN  IF ~IsSome(fd.lf_global) THEN park(fd, pg, bs, group, io_ok)
        ELSE store(read_lf_group(hd, bs, Unwrap(fd.lf_global), lf_group_idx, io_ok))

read_group_HfGlobal(hd, fd, pg, bs, io_ok) ==
    LET store(p) ==
            IF ~IsOk(p.r) THEN Outcome(p.r, fd, pg, p.bs)
            ELSE Outcome(Ok(<<>>), [fd EXCEPT !.hf_global = Some(Val(p.r))], pg, p.bs)
    IN  store(read_hf_global(hd, bs, io_ok))

\* a GroupPass arm that reserves the map entry before it parses
read_group_GroupPass_reserving(hd, fd, pg, bs, group, io_ok) ==
    LET pass_idx == group.kind[2]
        group_idx == group.kind[3]
        store(p) ==
            Outcome(IF IsOk(p.r) THEN Ok(<<>>) ELSE p.r,
                    [fd EXCEPT !.group_pass =
                         MapInsert(@, <<pass_idx, group_idx>>,
                                   IF IsOk(p.r) THEN Val(p.r) ELSE <<>>)],
                    pg, p.bs)
    IN  IF ~(IsSome(fd.lf_global) /\ IsSome(fd.hf_global))
        THEN park(fd, pg, bs, group, io_ok)
        ELSE store(read_group_pass(hd, bs, Unwrap(fd.lf_global), Unwrap(fd.hf_global),
                                   pass_idx, group_idx, io_ok))

read_group_GroupPass(hd, fd, pg, bs, group, io_ok) ==
    LET pass_idx == group.kind[2]
        group_idx == group.kind[3]
        store(p) ==
            IF ~IsOk(p.r) THEN Outcome(p.r, fd, pg, p.bs)
            ELSE Outcome(Ok(<<>>),
                         [fd EXCEPT !.group_pass =
                              MapInsert(@, <<pass_idx, group_idx>>, Val(p.r))],
                         pg, p.bs)
    IN  IF ~(IsSome(fd.lf_global) /\ IsSome(fd.hf_global))
        THEN park(fd, pg, bs, group, io_ok)
        ELSE store(read_group_pass(hd, bs, Unwrap(fd.lf_global), Unwrap(fd.hf_global),
                                   pass_idx, group_idx, io_ok))

read_group(hd, fd, pg, bs, group, io_ok) ==
    CASE group.kind[1] = "All" -> read_group_All(hd, fd, pg, bs, io_ok)
      [] group.kind[1] = "LfGlobal" -> read_group_LfGlobal(hd, fd, pg, bs, io_ok)
      [] group.kind[1] = "LfGroup" -> read_group_LfGroup(hd, fd, pg, bs, group, io_ok)
      [] group.kind[1] = "HfGlobal" -> read_group_HfGlobal(hd, fd, pg, bs, io_ok)
      [] group.kind[1] = "GroupPass" -> read_group_GroupPass(hd, fd, pg, bs, group, io_ok)

\* FrameData::complete
RECURSIVE copy_from_all(_, _, _)
copy_from_all(copied, vals, i) ==
    IF i > Len(vals) THEN copied ELSE copy_from_all(Append(copied, vals[i]), vals, i + 1)

\* BTreeMap::into_values: the values in ascending key order
LtPairKey(a, b) == a[1] < b[1] \/ (a[1] = b[1] /\ a[2] < b[2])
RECURSIVE into_values_u32(_)
into_values_u32(m) ==
    IF DOMAIN m = {} THEN <<>>
    ELSE LET k == CHOOSE x \in DOMAIN m : \A y \in DOMAIN m : x = y \/ x < y
         IN  <<m[k]>> \o into_values_u32([y \in DOMAIN m \ {k} |-> m[y]])
RECURSIVE into_values_pair(_)
into_values_pair(m) ==
    IF DOMAIN m = {} THEN <<>>
    ELSE LET k == CHOOSE x \in DOMAIN m : \A y \in DOMAIN m : x = y \/ LtPairKey(x, y)
         IN  <<m[k]>> \o into_values_pair([y \in DOMAIN m \ {k} |-> m[y]])

\* a complete that transfers the pass groups before the LF groups
FrameData_complete_pass_first(fd) ==
    IF ~IsSome(fd.lf_global)
    THEN [r |-> Err(IncompleteFrameData("lf_global")), data |-> fd]
    ELSE LET mlf_groups(vals) == [i \in DOMAIN vals |-> vals[i].mlf_group]
             modulars(vals) == [i \in DOMAIN vals |-> vals[i].modular]
             subs == modulars(into_values_pair(fd.group_pass))
                     \o mlf_groups(into_values_u32(fd.lf_group))
         IN  [r |-> Ok(<<>>),
              data |-> [fd EXCEPT !.lf_global =
                                      Some([Unwrap(@) EXCEPT
                                               !.copied = copy_from_all(@, subs, 1),
                                               !.inverse_applied = @ + 1]),
                                  !.lf_group = <<>>, !.group_pass = <<>>]]

\* a complete that does not look at lf_global
FrameData_complete_unchecked(fd) ==
    IF ~IsSome(fd.lf_global)
    THEN [r |-> Ok(<<>>), data |-> [fd EXCEPT !.lf_group = <<>>, !.group_pass = <<>>]]
    ELSE [r |-> Ok(<<>>),
          data |-> [fd EXCEPT !.lf_global =
                                  Some([Unwrap(@) EXCEPT !.inverse_applied = @ + 1]),
                              !.lf_group = <<>>, !.group_pass = <<>>]]

FrameData_complete(fd) ==
    IF ~IsSome(fd.lf_global)
    THEN [r |-> Err(IncompleteFrameData("lf_global")), data |-> fd]
    ELSE LET mlf_groups(vals) == [i \in DOMAIN vals |-> vals[i].mlf_group]
             modulars(vals) == [i \in DOMAIN vals |-> vals[i].modular]
             subs == mlf_groups(into_values_u32(fd.lf_group))
                     \o modulars(into_values_pair(fd.group_pass))
         IN  [r |-> Ok(<<>>),
              data |-> [fd EXCEPT !.lf_global =
                                      Some([Unwrap(@) EXCEPT
                                               !.copied = copy_from_all(@, subs, 1),
                                               !.inverse_applied = @ + 1]),
                                  !.lf_group = <<>>, !.group_pass = <<>>]]

(***************************************************************************)
(* Crop planner.  Integer overflow panics when the build has overflow      *)
(* checks and wraps otherwise.                                             *)
(***************************************************************************)
Panic(msg) == <<"Panic", msg>>
IsPanic(r) == r[1] = "Panic"
I32Min == -2147483647 - 1

\* a + b on u32
u32_add(a, b, oc) ==
    LET checked(s) ==
            IF s[1] = 1 /\ oc THEN Panic("attempt to add with overflow")
            ELSE Ok(<<s[2], s[3]>>)
    IN  checked(U32Sum(a, b))

\* -x on i32
i32_neg(x, oc) ==
    IF x = I32Min
    THEN IF oc THEN Panic("attempt to negate with overflow") ELSE Ok(I32Min)
    ELSE Ok(-x)

\* u32::saturating_add_signed
saturating_add_signed(u, d) ==
    IF d >= 0
    THEN IF U32Overflows(u, U32(d)) THEN U32Max ELSE U32WrappingAdd(u, U32(d))
    ELSE LET m == IF d = I32Min THEN <<Half \div 2, 0>> ELSE U32(-d)
         IN  IF U32Lt(u, m) THEN U32Zero ELSE U32Diff(u, m)

\* lines 83-92 / 194-203: translate the region to frame-local coordinates
translate_region(hd, rg, oc) ==
    IF IsSome(rg) /\ hd.have_crop
    THEN LET translated(r, nx, ny) ==
                 IF IsPanic(nx) THEN nx
                 ELSE IF IsPanic(ny) THEN ny
                 ELSE Ok(Some(<<saturating_add_signed(r[1], Val(nx)),
                                saturating_add_signed(r[2], Val(ny)), r[3], r[4]>>))
         IN  translated(Unwrap(rg), i32_neg(hd.x0, oc), i32_neg(hd.y0, oc))
    ELSE Ok(rg)

\* a planner that tests squeeze before delta palette
plan_region_squeeze_first(lfg, rg, oc) ==
    IF has_squeeze(lfg) /\ IsSome(rg)
    THEN LET expanded(w, h) ==
                 IF IsPanic(w) THEN w
                 ELSE IF IsPanic(h) THEN h
                 ELSE Ok(Some(<<U32Zero, U32Zero, Val(w), Val(h)>>))
         IN  expanded(u32_add(Unwrap(rg)[3], Unwrap(rg)[1], oc),
                      u32_add(Unwrap(rg)[4], Unwrap(rg)[2], oc))
    ELSE IF has_delta_palette(lfg) THEN Ok(None)
    ELSE Ok(rg)

\* lines 108-121 / 245-257: delta palette drops the region, squeeze expands it
plan_region(lfg, rg, oc) ==
    IF has_delta_palette(lfg) THEN Ok(None)
    ELSE IF has_squeeze(lfg) /\ IsSome(rg)
    THEN LET expanded(w, h) ==
                 IF IsPanic(w) THEN w
                 ELSE IF IsPanic(h) THEN h
                 ELSE Ok(Some(<<U32Zero, U32Zero, Val(w), Val(h)>>))
         IN  expanded(u32_add(Unwrap(rg)[3], Unwrap(rg)[1], oc),
                      u32_add(Unwrap(rg)[4], Unwrap(rg)[2], oc))
    ELSE Ok(rg)

\* fn is_aabb_collides, evaluated left to right with short-circuit &&
is_aabb_collides(rect0, rect1, oc) ==
    LET x0 == rect0[1]  y0 == rect0[2]  w0 == rect0[3]  h0 == rect0[4]
        x1 == rect1[1]  y1 == rect1[2]  w1 == rect1[3]  h1 == rect1[4]
        conj(s1, s2, s3, s4) ==
            IF IsPanic(s1) THEN s1 ELSE IF ~U32Lt(x0, Val(s1)) THEN Ok(FALSE)
            ELSE IF IsPanic(s2) THEN s2 ELSE IF ~U32Gt(Val(s2), x1) THEN Ok(FALSE)
            ELSE IF IsPanic(s3) THEN s3 ELSE IF ~U32Lt(y0, Val(s3)) THEN Ok(FALSE)
            ELSE IF IsPanic(s4) THEN s4 ELSE Ok(U32Gt(Val(s4), y1))
    IN  conj(u32_add(x1, w1, oc), u32_add(x0, w0, oc),
             u32_add(y1, h1, oc), u32_add(y0, h0, oc))

\* the footprint (group_left, group_top, dim, dim) of group idx
footprint(idx, per_row, dim) ==
    <<U32((idx % per_row) * dim), U32((idx \div per_row) * dim), U32(dim), U32(dim)>>

\* the per-kind crop test of the loaders: Ok(TRUE) keeps the section
crop_keeps(hd, rg, kind, oc) ==
    IF ~IsSome(rg) THEN Ok(TRUE)
    ELSE CASE kind[1] = "LfGroup" ->
                is_aabb_collides(Unwrap(rg),
                    footprint(kind[3], lf_groups_per_row(hd), lf_group_dim(hd)),
                    oc)
           [] kind[1] = "GroupPass" ->
                is_aabb_collides(Unwrap(rg),
                    footprint(kind[3], groups_per_row(hd), group_dim(hd)),
                    oc)
           [] OTHER -> Ok(TRUE)

(***************************************************************************)
(* Integers of the spline decoder.  An i32 is an integer; a u32, a usize   *)
(* or a u64 is a big-endian sequence of 16-bit limbs (two for a u32, four  *)
(* for a u64), so that sums and products are computed at their width.      *)
(***************************************************************************)
I32Max == 2147483647

RECURSIVE wide_sum(_, _)
\* a + b of two values of n limbs, as n + 1 limbs (the carry first)
wide_sum(a, b) ==
    IF a = <<>> THEN <<0>>
    ELSE LET join(t) ==
                 <<(Head(a) + Head(b) + t[1]) \div Half,
                   (Head(a) + Head(b) + t[1]) % Half>> \o Tail(t)
         IN  join(wide_sum(Tail(a), Tail(b)))

RECURSIVE wide_half(_, _)
\* a \div 2, the limb above a being odd iff carry = 1
wide_half(a, carry) ==
    IF a = <<>> THEN <<>>
    ELSE <<(carry * Half + Head(a)) \div 2>> \o wide_half(Tail(a), Head(a) % 2)

RECURSIVE wide_lt(_, _)
wide_lt(a, b) ==
    /\ a # <<>>
    /\ \/ Head(a) < Head(b)
       \/ Head(a) = Head(b) /\ wide_lt(Tail(a), Tail(b))

wide_zero(a) == [i \in DOMAIN a |-> 0]

RECURSIVE wide_mul_small(_, _)
\* a * f for a factor f of at most 8 bits or 256, as n + 1 limbs
wide_mul_small(a, f) ==
    IF a = <<>> THEN <<0>>
    ELSE LET join(t) ==
                 <<(Head(a) * f + t[1]) \div Half, (Head(a) * f + t[1]) % Half>> \o Tail(t)
         IN  join(wide_mul_small(Tail(a), f))

RECURSIVE wide_mul_from(_, _, _)
\* acc * 256^Len(bytes) + a * bytes, byte by byte from the most significant
wide_mul_from(a, bytes, acc) ==
    IF bytes = <<>> THEN acc
    ELSE LET fin(s, ovf) == [ovf |-> ovf \/ s[1] # 0, val |-> Tail(s)]
             add(sh, pr) ==
                 fin(wide_sum(Tail(sh), Tail(pr)), acc.ovf \/ sh[1] # 0 \/ pr[1] # 0)
         IN  wide_mul_from(a, Tail(bytes),
                           add(wide_mul_small(acc.val, 256), wide_mul_small(a, Head(bytes))))

\* a * b at the width of a: the wrapped product, and whether it overflowed
wide_mul(a, b) ==
    wide_mul_from(a,
                  [i \in 1..(2 * Len(b)) |->
                      IF i % 2 = 1 THEN b[(i + 1) \div 2] \div 256 ELSE b[i \div 2] % 256],
                  [ovf |-> FALSE, val |-> wide_zero(a)])

\* a + b and a * b on u32, usize or u64
checked_add(a, b, oc) ==
    LET checked(s) ==
            IF s[1] = 1 /\ oc THEN Panic("attempt to add with overflow")
            ELSE Ok(Tail(s))
    IN  checked(wide_sum(a, b))
checked_mul(a, b, oc) ==
    LET checked(m) ==
            IF m.ovf /\ oc THEN Panic("attempt to multiply with overflow")
            ELSE Ok(m.val)
    IN  checked(wide_mul(a, b))

\* a + b on i32
i32_add(a, b, oc) ==
    IF b > 0 /\ a > I32Max - b
    THEN IF oc THEN Panic("attempt to add with overflow")
         ELSE Ok((a + I32Min) + (b + I32Min))
    ELSE IF b < 0 /\ a < I32Min - b
    THEN IF oc THEN Panic("attempt to add with overflow")
         ELSE Ok((a - I32Min) + (b - I32Min))
    ELSE Ok(a + b)

\* i32::abs
i32_abs(a, oc) ==
    IF a = I32Min
    THEN IF oc THEN Panic("attempt to negate with overflow") ELSE Ok(I32Min)
    ELSE Ok(IF a < 0 THEN -a ELSE a)

\* `as u64` of an i32: sign extension
i32_as_u64(a) ==
    IF a >= 0 THEN <<0, 0, a \div Half, a % Half>>
    ELSE <<Half - 1, Half - 1, (a - I32Min) \div Half + Half \div 2, (a - I32Min) % Half>>

\* `as i32` of a u32
u32_as_i32(u) ==
    IF u[1] < Half \div 2 THEN u[1] * Half + u[2] ELSE (u[1] - Half) * Half + u[2]

\* `as u32` of an i32
i32_as_u32(a) ==
    IF a >= 0 THEN U32(a)
    ELSE <<(a - I32Min) \div Half + Half \div 2, (a - I32Min) % Half>>

\* `as usize` of a u32 and of a small constant
u32_as_usize(u) == <<0, 0>> \o u
usize(n) == <<0, 0>> \o U32(n)

\* `as f32` of an i32, as <<m, e>> for m * 2^e: e = 0 below 2^24, else the
\* nearest value of 24 significant bits, ties to even
i32_as_f32(a) ==
    LET mag == IF a < 0 THEN -a ELSE a
        sign(m) == IF a < 0 THEN -m ELSE m
        norm(q, k) == IF q = 2^24 THEN <<sign(2^23), k + 1>> ELSE <<sign(q), k>>
        round(q, r, k) ==
            IF 2 * r > 2^k \/ (2 * r = 2^k /\ q % 2 = 1) THEN norm(q + 1, k)
            ELSE norm(q, k)
        cast(k) == round(mag \div 2^k, mag % 2^k, k)
    IN  IF a = I32Min THEN <<-(2^23), 8>>
        ELSE IF mag < 2^24 THEN <<a, 0>>
        ELSE cast(CHOOSE k \in 1..7 : mag \div 2^(23 + k) = 1)

(***************************************************************************)
(* Splines::parse and QuantSpline::decode.  The entropy decoder is the     *)
(* sequence of the u32 values that read_varint will yield.                 *)
(***************************************************************************)
MAX_NUM_SPLINES == usize(2^24)
MAX_NUM_CONTROL_POINTS == usize(2^20)
NumDctCoeffs == 32

TooManySplines(n) == <<"TooManySplines", n>>
TooManySplinePoints(n) == <<"TooManySplinePoints", n>>

\* jxl_bitstream::unpack_signed: even u to u / 2, odd u to -(u + 1) / 2
unpack_signed(u) ==
    LET signed(h) == IF u[2] % 2 = 0 THEN h[1] * Half + h[2] ELSE -(h[1] * Half + h[2]) - 1
    IN  signed(wide_half(u, 0))

\* Decoder::read_varint(..)?
read_varint(dec) ==
    IF dec = <<>> THEN [r |-> Err(IoError), dec |-> dec]
    ELSE [r |-> Ok(Head(dec)), dec |-> Tail(dec)]

\* n times unpack_signed(decoder.read_varint(..)?)
read_signed(dec, n) ==
    IF Len(dec) < n THEN [r |-> Err(IoError), dec |-> <<>>]
    ELSE [r |-> Ok([i \in 1..n |-> unpack_signed(dec[i])]), dec |-> SubSeq(dec, n + 1, Len(dec))]

usize_min(a, b) == IF wide_lt(b, a) THEN b ELSE a
\* a usize that is at most 2^24, as an integer
usize_small(a) == a[3] * Half + a[4]

QuantSpline_new(start_point) ==
    [start_point |-> start_point,
     points_deltas |-> <<>>,
     xyb_dct |-> [c \in 1..3 |-> [i \in 1..NumDctCoeffs |-> 0]],
     sigma_dct |-> [i \in 1..NumDctCoeffs |-> 0]]

\* QuantSpline::decode on a new QuantSpline
QuantSpline_decode(qs, dec, num_pixels) ==
    LET stop(e, d) == [r |-> e, dec |-> d]
        sigma(xyb, deltas, sg) ==
            IF ~IsOk(sg.r) THEN stop(sg.r, sg.dec)
            ELSE [r |-> Ok([qs EXCEPT
                              !.points_deltas =
                                  [i \in 1..(Len(deltas) \div 2) |->
                                      <<deltas[2 * i - 1], deltas[2 * i]>>],
                              !.xyb_dct =
                                  [c \in 1..3 |->
                                      [i \in 1..NumDctCoeffs |->
                                          xyb[(c - 1) * NumDctCoeffs + i]]],
                              !.sigma_dct = Val(sg.r)]),
                  dec |-> sg.dec]
        color(deltas, xyb) ==
            IF ~IsOk(xyb.r) THEN stop(xyb.r, xyb.dec)
            ELSE sigma(Val(xyb.r), deltas, read_signed(xyb.dec, NumDctCoeffs))
        points(deltas) ==
            IF ~IsOk(deltas.r) THEN stop(deltas.r, deltas.dec)
            ELSE color(Val(deltas.r), read_signed(deltas.dec, 3 * NumDctCoeffs))
        count(rd, num_points) ==
            IF wide_lt(usize_min(MAX_NUM_CONTROL_POINTS, wide_half(num_pixels, 0)),
                       num_points)
            THEN stop(Err(TooManySplinePoints(num_points)), rd.dec)
            ELSE points(read_signed(rd.dec, 2 * usize_small(num_points)))
        first(rd) ==
            IF ~IsOk(rd.r) THEN stop(rd.r, rd.dec)
            ELSE count(rd, u32_as_usize(Val(rd.r)))
    IN  first(read_varint(dec))

RECURSIVE read_start_points(_, _, _, _, _)
\* lines 71-81: the loop that reads the start points
read_start_points(dec, i, num_splines, start_points, oc) ==
    IF i = num_splines THEN [r |-> Ok(start_points), dec |-> dec]
    ELSE LET stop(e, d) == [r |-> e, dec |-> d]
             store(x, y, d) ==
                 IF IsPanic(x) THEN stop(x, d)
                 ELSE IF IsPanic(y) THEN stop(y, d)
                 ELSE read_start_points(d, i + 1, num_splines,
                                        Append(start_points, <<Val(x), Val(y)>>), oc)
             both(rx, ry) ==
                 IF ~IsOk(rx.r) THEN stop(rx.r, rx.dec)
                 ELSE IF ~IsOk(ry.r) THEN stop(ry.r, ry.dec)
                 ELSE IF i = 0
                 THEN store(Ok(u32_as_i32(Val(rx.r))), Ok(u32_as_i32(Val(ry.r))), ry.dec)
                 ELSE store(i32_add(unpack_signed(i32_as_u32(u32_as_i32(Val(rx.r)))),
                                    start_points[i][1], oc),
                            i32_add(unpack_signed(i32_as_u32(u32_as_i32(Val(ry.r)))),
                                    start_points[i][2], oc),
                            ry.dec)
             second(rx) == both(rx, IF IsOk(rx.r) THEN read_varint(rx.dec) ELSE rx)
         IN  second(read_varint(dec))

RECURSIVE decode_splines(_, _, _, _)
\* lines 85-90: decode one QuantSpline per start point
decode_splines(dec, start_points, splines, num_pixels) ==
    IF start_points = <<>> THEN [r |-> Ok(splines), dec |-> dec]
    ELSE LET push(d) ==
                 IF ~IsOk(d.r) THEN d
                 ELSE decode_splines(d.dec, Tail(start_points), Append(splines, Val(d.r)),
                                     num_pixels)
         IN  push(QuantSpline_decode(QuantSpline_new(Head(start_points)), dec, num_pixels))

\* Splines::parse, after Decoder::parse and Decoder::begin
Splines_parse(dec, hd, oc) ==
    LET stop(e, d) == [r |-> e, dec |-> d]
        bundle(quant_adjust, sp) ==
            IF ~IsOk(sp.r) THEN sp
            ELSE [r |-> Ok([quant_adjust |-> quant_adjust, quant_splines |-> Val(sp.r)]),
                  dec |-> sp.dec]
        adjust(starts, qa, num_pixels) ==
            IF ~IsOk(qa.r) THEN stop(qa.r, qa.dec)
            ELSE bundle(Val(qa.r)[1], decode_splines(qa.dec, starts, <<>>, num_pixels))
        starts(sp, num_pixels) ==
            IF ~IsOk(sp.r) THEN sp
            ELSE adjust(Val(sp.r), read_signed(sp.dec, 1), num_pixels)
        count(rd, num_splines, num_pixels) ==
            IF IsPanic(num_splines) THEN stop(num_splines, rd.dec)
            ELSE IF wide_lt(usize_min(MAX_NUM_SPLINES,
                                      wide_half(wide_half(num_pixels, 0), 0)),
                            u32_as_usize(Val(num_splines)))
            THEN stop(Err(TooManySplines(u32_as_usize(Val(num_splines)))), rd.dec)
            ELSE starts(read_start_points(rd.dec, 0,
                                          usize_small(u32_as_usize(Val(num_splines))),
                                          <<>>, oc),
                        num_pixels)
        first(rd, num_pixels) ==
            IF ~IsOk(rd.r) THEN stop(rd.r, rd.dec)
            ELSE count(rd, checked_add(Val(rd.r), U32(1), oc), num_pixels)
        pixels(np) ==
            IF IsPanic(np) THEN stop(np, dec)
            ELSE first(read_varint(dec), u32_as_usize(Val(np)))
    IN  pixels(checked_mul(hd.width, hd.height, oc))

(***************************************************************************)
(* QuantSpline::dequant.  A coordinate of a Point is <<"f32", m, e>> for   *)
(* the f32 m * 2^e.  The coefficient arithmetic in f32 is computed on      *)
(* exact fractions: it is exact when 8 + quant_adjust is a power of two    *)
(* or quant_adjust is negative, and the coefficients and correlations are  *)
(* small integers, which is what the inputs explored are.  The f32         *)
(* coefficients of the Spline record the inputs they are computed from.    *)
(***************************************************************************)
Point_new(x, y) == [x |-> x, y |-> y]
F32(m) == <<"f32", m[1], m[2]>>
u64(n) == <<0, 0>> \o U32(n)

RECURSIVE dequant_points(_, _, _, _, _, _)
\* lines 151-158: the loop over points_deltas
dequant_points(deltas, cur_delta, cur_value, manhattan_distance, points, oc) ==
    IF deltas = <<>>
    THEN Ok([points |-> points, manhattan_distance |-> manhattan_distance])
    ELSE LET push(dx, dy, m, vx, vy) ==
                 IF IsPanic(vx) THEN vx
                 ELSE IF IsPanic(vy) THEN vy
                 ELSE dequant_points(Tail(deltas), <<dx, dy>>, <<Val(vx), Val(vy)>>, m,
                                     Append(points,
                                            Point_new(F32(i32_as_f32(Val(vx))),
                                                      F32(i32_as_f32(Val(vy))))),
                                     oc)
             value(dx, dy, m) ==
                 IF IsPanic(m) THEN m
                 ELSE push(dx, dy, Val(m), i32_add(cur_value[1], dx, oc),
                           i32_add(cur_value[2], dy, oc))
             dist(dx, dy, sum) ==
                 IF IsPanic(sum) THEN sum
                 ELSE value(dx, dy, checked_add(manhattan_distance, i32_as_u64(Val(sum)), oc))
             abs(dx, dy, ax, ay) ==
                 IF IsPanic(ax) THEN ax
                 ELSE IF IsPanic(ay) THEN ay
                 ELSE dist(dx, dy, i32_add(Val(ax), Val(ay), oc))
             delta(dx, dy) ==
                 IF IsPanic(dx) THEN dx
                 ELSE IF IsPanic(dy) THEN dy
                 ELSE abs(Val(dx), Val(dy), i32_abs(Val(dx), oc), i32_abs(Val(dy), oc))
         IN  delta(i32_add(cur_delta[1], Head(deltas)[1], oc),
                   i32_add(cur_delta[2], Head(deltas)[2], oc))

\* lines 164-169, as the fraction <<numerator, denominator>>
inverted_qa(quant_adjust) ==
    IF quant_adjust >= 0 THEN <<8, 8 + quant_adjust>> ELSE <<8 - quant_adjust, 8>>

\* (v.abs() as f32 * inverted_qa).ceil() as u64, for a small v
ceil_scaled(v, iqa) ==
    ((IF v < 0 THEN -v ELSE v) * iqa[1] + iqa[2] - 1) \div iqa[2]

RECURSIVE sum_scaled(_, _, _, _)
\* lines 188-191: the sum of the scaled coefficients lo..hi of a channel,
\* added up by halves
sum_scaled(dct, iqa, lo, hi) ==
    IF lo = hi THEN ceil_scaled(dct[lo], iqa)
    ELSE sum_scaled(dct, iqa, lo, (lo + hi) \div 2)
         + sum_scaled(dct, iqa, (lo + hi) \div 2 + 1, hi)

\* fn log2_ceil
log2_ceil(x) == CHOOSE k \in 0..31 : x <= 2^k /\ (k = 0 \/ x > 2^(k - 1))

Max(a, b) == IF a > b THEN a ELSE b

\* lines 185-199
log_color(qs, iqa, corr) ==
    LET level(cx, cy, cb) ==
            Max(1, log2_ceil(1 + Max(Max(cx + ceil_scaled(corr[1], <<1, 1>>) * cy, cy),
                                     cb + ceil_scaled(corr[2], <<1, 1>>) * cy)))
    IN  level(sum_scaled(qs.xyb_dct[1], iqa, 1, NumDctCoeffs),
              sum_scaled(qs.xyb_dct[2], iqa, 1, NumDctCoeffs),
              sum_scaled(qs.xyb_dct[3], iqa, 1, NumDctCoeffs))

RECURSIVE width_estimate(_, _, _, _, _)
\* lines 201-208: the part of width_estimate that the coefficients lo..hi
\* add, added up by halves
width_estimate(sigma_dct, iqa, lc, lo, hi) ==
    IF lo = hi
    THEN LET weight(w) == w * w * lc
         IN  weight(Max(1, ceil_scaled(sigma_dct[lo], iqa)))
    ELSE width_estimate(sigma_dct, iqa, lc, lo, (lo + hi) \div 2)
         + width_estimate(sigma_dct, iqa, lc, (lo + hi) \div 2 + 1, hi)

\* QuantSpline::dequant: the Spline and the new value of *estimated_area
QuantSpline_dequant(qs, quant_adjust, base_correlations_xb, estimated_area, oc) ==
    LET corr == IF IsSome(base_correlations_xb) THEN Unwrap(base_correlations_xb)
                ELSE <<0, 1>>
        done(pts, area) ==
            IF IsPanic(area) THEN [r |-> area, estimated_area |-> estimated_area]
            ELSE [r |-> Ok([points |-> pts,
                            xyb_dct |-> <<"xyb_dct", qs.xyb_dct, quant_adjust, corr>>,
                            sigma_dct |-> <<"sigma_dct", qs.sigma_dct, quant_adjust>>]),
                  estimated_area |-> Val(area)]
        add(pts, product) ==
            IF IsPanic(product) THEN [r |-> product, estimated_area |-> estimated_area]
            ELSE done(pts, checked_add(estimated_area, Val(product), oc))
        area(loop, we) ==
            IF IsPanic(loop) THEN [r |-> loop, estimated_area |-> estimated_area]
            ELSE add(Val(loop).points, checked_mul(u64(we), Val(loop).manhattan_distance, oc))
    IN  area(dequant_points(qs.points_deltas, <<0, 0>>, qs.start_point, u64(0),
                            <<Point_new(F32(i32_as_f32(qs.start_point[1])),
                                        F32(i32_as_f32(qs.start_point[2])))>>,
                            oc),
             width_estimate(qs.sigma_dct, inverted_qa(quant_adjust),
                            log_color(qs, inverted_qa(quant_adjust), corr),
                            1, NumDctCoeffs))

(***************************************************************************)
(* Spline::get_upsampled_points.  The coordinates of a mirrored and of an   *)
(* interpolated point record the values they are computed from.            *)
(***************************************************************************)
\* Point::mirror
Point_mirror(self, center) ==
    Point_new(<<"mirror", self.x, center.x>>, <<"mirror", self.y, center.y>>)

\* lines 284-298: the point pushed for one step of 1..16
interpolate(p, step) ==
    Point_new(<<"catmull_rom", "x", p, step>>, <<"catmull_rom", "y", p, step>>)

RECURSIVE upsample_from(_, _, _)
\* lines 276-300: the loop over the windows of four extended points
upsample_from(extended, i, upsampled) ==
    IF i >= Len(extended) - 3 THEN upsampled
    ELSE upsample_from(extended, i + 1,
                       upsampled \o <<extended[i + 2]>>
                       \o [step \in 1..15 |-> interpolate(SubSeq(extended, i + 1, i + 4), step)])

\* get_upsampled_points without the push of the last control point
get_upsampled_points_open(s) ==
    IF Len(s) = 1 THEN Ok(<<s[1]>>)
    ELSE IF Len(s) = 0 THEN Panic("index out of bounds")
    ELSE Ok(upsample_from(<<Point_mirror(s[2], s[1])>> \o s
                            \o <<Point_mirror(s[Len(s) - 1], s[Len(s)])>>,
                          0, <<>>))

get_upsampled_points(s) ==
    IF Len(s) = 1 THEN Ok(<<s[1]>>)
    ELSE IF Len(s) = 0 THEN Panic("index out of bounds")
    ELSE Ok(upsample_from(<<Point_mirror(s[2], s[1])>> \o s
                            \o <<Point_mirror(s[Len(s) - 1], s[Len(s)])>>,
                          0, <<>>)
            \o <<s[Len(s)]>>)

(***************************************************************************)
(* Spline::get_samples.  The distance between two points that are casts   *)
(* of integers is 0 when they are equal and at least 1 otherwise.  The     *)
(* distances that involve an interpolated point are not computed: `far` is *)
(* the set of indices of upsampled_points at which the test of line 244    *)
(* succeeds, once each.  An arc length that is not 0 or 1, and a point     *)
(* placed by lines 245-247, record what they are computed from.            *)
(***************************************************************************)
SplineArc(point, length) == [point |-> point, length |-> length]
is_cast(p) == p.x[1] = "f32" /\ p.y[1] = "f32"

\* prev when next_idx = j, in the inner loop entered with next_idx = a
prev_at(up, current, a, j) == IF j = a THEN current ELSE up[j]

\* arclength when next_idx = j, in the inner loop entered with next_idx = a
arclength_at(up, current, a, j) ==
    IF is_cast(current) /\ \A i \in a..(j - 1) : up[i + 1] = current
    THEN F32(<<0, 0>>)
    ELSE <<"arclength", current, a, j>>

\* line 244 when next_idx = j: arclength + arclength_to_next >= 1.0
reaches(up, current, a, j, far) ==
    IF is_cast(prev_at(up, current, a, j)) /\ is_cast(up[j + 1])
    THEN up[j + 1] # prev_at(up, current, a, j)
    ELSE j \in far

RECURSIVE sample_from(_, _, _, _, _)
\* lines 231-258: one round of the outer loop, the inner loop being the search
\* of the first next_idx at which line 244 succeeds
sample_from(up, current, next_idx, all_samples, far) ==
    IF next_idx >= Len(up) THEN all_samples
    ELSE LET hits == {j \in next_idx..(Len(up) - 1) : reaches(up, current, next_idx, j, far)}
             place(j) ==
                 Point_new(<<"sample", "x", prev_at(up, current, next_idx, j), j,
                             arclength_at(up, current, next_idx, j)>>,
                           <<"sample", "y", prev_at(up, current, next_idx, j), j,
                             arclength_at(up, current, next_idx, j)>>)
             break(j) ==
                 sample_from(up, place(j), j,
                             Append(all_samples, SplineArc(place(j), F32(<<1, 0>>))),
                             far \ {j})
         IN  IF hits = {}
             THEN Append(all_samples,
                         SplineArc(prev_at(up, current, next_idx, Len(up)),
                                   arclength_at(up, current, next_idx, Len(up))))
             ELSE break(CHOOSE j \in hits : \A h \in hits : j <= h)

\* Spline::get_samples on the upsampled points
get_samples(upsampled_points, far) ==
    sample_from(upsampled_points, upsampled_points[1], 0,
                <<SplineArc(upsampled_points[1], F32(<<1, 0>>))>>, far)

(***************************************************************************)
(* Frames: the header, the TOC in bitstream order and the byte stream.     *)
(***************************************************************************)
\* a frame of one LF group and one group, and a frame of one LF group and two
\* groups in a row
OneGroup == {KindLfGlobal, KindLfGroup(0), KindHfGlobal, KindGroupPass(0, 0)}
TwoGroups == OneGroup \cup {KindGroupPass(0, 1)}
AllKinds == TwoGroups
SingleKinds == <<KindLfGlobal, KindLfGroup(0), KindHfGlobal, KindGroupPass(0, 0)>>
\* the bitstream orders explored: every permutation of the sections that keeps
\* the groups of a pass in index order
Orders(kinds) ==
    {o \in [1..Cardinality(kinds) -> kinds] :
        \A i, j \in DOMAIN o :
            /\ i # j => o[i] # o[j]
            /\ i < j /\ o[i][1] = "GroupPass" /\ o[j][1] = "GroupPass" => o[i][3] < o[j][3]}

TagByte(kind) ==
    CASE kind[1] = "LfGlobal" -> 1
      [] kind[1] = "HfGlobal" -> 2
      [] kind[1] = "LfGroup" -> 16 + kind[3]
      [] kind[1] = "GroupPass" -> 32 + 8 * kind[2] + kind[3]

\* the bytes of one section
Payload(hd, kind, flags) ==
    IF SectionLen(hd, kind) = 0 THEN <<>> ELSE <<TagByte(kind), flags[kind]>>

RECURSIVE StreamOf(_, _, _)
StreamOf(hd, order, flags) ==
    IF order = <<>> THEN <<>>
    ELSE Payload(hd, Head(order), flags) \o StreamOf(hd, Tail(order), flags)

\* Toc of a multi-entry frame: offsets are absolute positions, in bitstream order
RECURSIVE TocOf(_, _, _)
TocOf(hd, order, offset) ==
    IF order = <<>> THEN <<>>
    ELSE <<TocGroup(Head(order), offset, SectionLen(hd, Head(order)))>>
         \o TocOf(hd, Tail(order), offset + SectionLen(hd, Head(order)))

is_single_entry(t) == Len(t) = 1
toc_lf_global(t) == t[CHOOSE i \in DOMAIN t : t[i].kind[1] \in {"All", "LfGlobal"}]
TocKinds(t) == {t[i].kind : i \in DOMAIN t}
TocIndex(t, kind) == CHOOSE i \in DOMAIN t : t[i].kind = kind

LfGlobalFlags == {0, 1, 2, 3, BadByte}
GroupFlags == {0, BadByte}
FlagChoices ==
    {f \in [AllKinds -> LfGlobalFlags] :
        \A k \in AllKinds :
            /\ k # KindLfGlobal => f[k] \in GroupFlags
            /\ k = KindHfGlobal => f[k] = 0}
WellFormed(flags) == \A k \in AllKinds : flags[k] # BadByte
OthersWellFormed(flags) == \A k \in AllKinds \ {KindLfGlobal} : flags[k] # BadByte

HeaderOf(encoding, crop, per_row) ==
    [encoding |-> encoding,
     have_crop |-> crop[1], x0 |-> crop[2], y0 |-> crop[3],
     width |-> U32(128 * per_row), height |-> U32(128),
     group_dim |-> 128, groups_per_row |-> per_row,
     lf_group_dim |-> 1024, lf_groups_per_row |-> 1,
     passes |-> [num_passes |-> 1, downsample |-> <<>>, last_pass |-> <<>>]]

NoCrop == <<FALSE, 0, 0>>
\* no crop offset, an offset of one group, and the most negative x0 of an i32
FrameCrops == {NoCrop, <<TRUE, 128, 0>>, <<TRUE, I32Min, 0>>}

\* The frames explored: a frame without crop offset whose LfGlobal or whose
\* groups may be malformed; a well-formed modular frame with any combination of
\* squeeze and delta palette, in either build; a well-formed modular frame
\* with a crop offset.
FrameChoices ==
    {c \in [encoding : {Modular, VarDct}, crop : FrameCrops, flags : FlagChoices,
            overflow_checks : BOOLEAN] :
        \/ /\ c.crop = NoCrop
           /\ ~c.overflow_checks
           /\ c.flags[KindLfGlobal] \in {0, BadByte}
           /\ c.flags[KindLfGlobal] = BadByte \/ c.encoding = VarDct
                  => OthersWellFormed(c.flags)
        \/ /\ c.encoding = Modular
           /\ WellFormed(c.flags)
           /\ c.crop = NoCrop
        \/ /\ c.encoding = Modular
           /\ WellFormed(c.flags)
           /\ c.flags[KindLfGlobal] = 0
           /\ ~c.overflow_checks}

VARIABLES
    header, toc, overflow_checks,   \* the parsed frame header, the TOC, the build
    bitstream,                      \* the caller's bitstream
    data, pending_groups,           \* Frame.data, Frame.pending_groups
    op, pc, result,                 \* the call in progress, its position, its result
    user_region,                    \* the region argument of the call
    it, region, pending,            \* locals of the loaders
    lf_global, hf_global,           \* locals of load_cropped_par
    lf_group_ch, pass_group_ch,     \* the two channels
    lf_worker, pass_worker,         \* the two spawned tasks
    lf_groups, pass_groups, io_result,
    read, parsed, skipped, failed,  \* history of the call: sections fetched from the
                                    \* bitstream, handed to a parser, dropped by the
                                    \* crop test, and the section whose parse failed
    decoder,                        \* the varints the spline decoder has yet to read
    splines, spline,                \* the parsed Splines, the last dequantised Spline
    estimated_area,                 \* the u64 out-parameter of dequant
    upsampled                       \* the last value of get_upsampled_points

spline_vars == <<decoder, splines, spline, estimated_area, upsampled>>
\* the frame and the spline state, which no loader writes
frame_vars == <<header, toc, overflow_checks, spline_vars>>
par_vars == <<lf_global, hf_global, lf_group_ch, pass_group_ch, lf_worker, pass_worker,
              lf_groups, pass_groups, io_result>>
hist_vars == <<read, parsed, skipped, failed>>
vars == <<header, toc, overflow_checks, bitstream, data, pending_groups, op, pc, result,
          user_region, it, region, pending, lf_global, hf_global, lf_group_ch,
          pass_group_ch, lf_worker, pass_worker, lf_groups, pass_groups, io_result,
          read, parsed, skipped, failed, decoder, splines, spline, estimated_area,
          upsampled>>
loader_vars == <<bitstream, data, pending_groups, user_region, region, pending, par_vars,
                 hist_vars>>

Channel == [q |-> <<>>, tx |-> TRUE, rx |-> TRUE]
Task == [st |-> "unspawned", acc |-> <<>>, err |-> None, late |-> 0, panicked |-> FALSE]

InitLocals ==
    /\ op = "none" /\ pc = "idle" /\ result = Ok(<<>>)
    /\ user_region = None
    /\ it = 1 /\ region = None /\ pending = <<>>
    /\ lf_global = None /\ hf_global = None
    /\ lf_group_ch = Channel /\ pass_group_ch = Channel
    /\ lf_worker = Task /\ pass_worker = Task
    /\ lf_groups = Ok(<<>>) /\ pass_groups = Ok(<<>>) /\ io_result = Ok(<<>>)
    /\ read = {} /\ parsed = {} /\ skipped = {} /\ failed = None
    /\ splines = None /\ spline = None /\ estimated_area = u64(0) /\ upsampled = None

\* Frame::parse of a multi-entry frame of the sections `kinds`
InitMulti(kinds) ==
    \E c \in FrameChoices, order \in Orders(kinds) :
        /\ \A k \in AllKinds \ kinds : c.flags[k] = 0
        /\ header = HeaderOf(c.encoding, c.crop, Cardinality(kinds) - 3)
        /\ toc = TocOf(header, order, 0)
        /\ bitstream = Bitstream(StreamOf(header, order, c.flags))
        /\ overflow_checks = c.overflow_checks

\* the bytes between the position of the caller's bitstream and the single
\* entry of the TOC: none when the frame is loaded right after Frame::parse,
\* one when the caller loads it from a bitstream that stands before the entry
Leads == {<<>>, <<0>>}

\* Frame::parse of a single-entry frame
InitSingle ==
    \E c \in FrameChoices, lead \in Leads :
        /\ c.flags[KindGroupPass(0, 1)] = 0
        /\ header = HeaderOf(c.encoding, c.crop, 1)
        /\ toc = <<TocGroup(KindAll, Len(lead),
                            Len(StreamOf(header, SingleKinds, c.flags)))>>
        /\ bitstream = Bitstream(lead \o StreamOf(header, SingleKinds, c.flags))
        /\ overflow_checks = c.overflow_checks

InitFrame(kinds) ==
    /\ InitMulti(kinds) \/ InitSingle
    /\ data = FrameData_new(header)
    /\ pending_groups = <<>>
    /\ decoder = <<>>
    /\ InitLocals

\* how a call ends: Ok/Err return to the caller, a panic unwinds
Finish(r) ==
    /\ result' = r
    /\ pc' = IF IsPanic(r) THEN "panicked" ELSE "idle"

(***************************************************************************)
(* The spline streams explored.  A stream is the sequence of varints the   *)
(* entropy decoder yields: the count, the start points, quant_adjust and   *)
(* one body per spline.  All the splines of a stream have the same deltas  *)
(* and coefficients.                                                       *)
(***************************************************************************)
MaxNumPoints == 5

\* the varint that unpack_signed turns into v, for a small v
pack_signed(v) == IF v >= 0 THEN U32(2 * v) ELSE U32(-2 * v - 1)

\* frames of 4 and 16 pixels, and a frame whose pixel count is 2^32
SplineDims == {<<2, 2>>, <<4, 4>>, <<65536, 65536>>}
\* one, two and five splines, and the varint 0xFFFFFFFF
SplineCounts == {U32(0), U32(1), U32(4), U32Max}
\* start points (0, 0), (10, 20) and (i32::MAX, 0)
StartPoints == {<<U32(0), U32(0)>>, <<U32(10), U32(20)>>, <<<<Half \div 2 - 1, Half - 1>>, U32(0)>>}
\* deltas (1, 0), (-3, 2), (i32::MIN, 0) and (i32::MAX, i32::MAX)
Deltas ==
    {<<pack_signed(1), pack_signed(0)>>, <<pack_signed(-3), pack_signed(2)>>,
     <<U32Max, U32(0)>>, <<<<Half - 1, Half - 2>>, <<Half - 1, Half - 2>>>>}
\* quant_adjust 0, 8 and -8
QuantAdjusts == {pack_signed(0), pack_signed(8), pack_signed(-8)}
Correlations == {None, Some(<<2, -3>>)}

SplineCases ==
    [dims : SplineDims, count : SplineCounts, start : StartPoints, delta : Deltas,
     quant_adjust : QuantAdjusts, num_points : 0..MaxNumPoints, sigma : {0, 3},
     overflow_checks : BOOLEAN]

\* the varints of one spline body: num_points, the deltas, 3 * 32 colour
\* coefficients and 32 sigma coefficients
SplineBody(c) ==
    <<U32(c.num_points)>>
    \o [i \in 1..2 * c.num_points |-> c.delta[2 - (i % 2)]]
    \o [i \in 1..3 * NumDctCoeffs |-> IF i = NumDctCoeffs + 1 THEN pack_signed(4) ELSE U32(0)]
    \o [i \in 1..NumDctCoeffs |-> IF i = 1 THEN pack_signed(c.sigma) ELSE U32(0)]

\* the stream of count + 1 splines when that is one or two, and of no spline
\* otherwise; every spline after the first starts 100 to the right
SplineStream(c) ==
    LET encoded == IF c.count \in {U32(0), U32(1)} THEN c.count[2] + 1 ELSE 0
    IN  <<c.count>>
        \o (IF encoded >= 1 THEN c.start ELSE <<>>)
        \o (IF encoded >= 2 THEN <<pack_signed(100), pack_signed(0)>> ELSE <<>>)
        \o <<c.quant_adjust>>
        \o (IF encoded >= 1 THEN SplineBody(c) ELSE <<>>)
        \o (IF encoded >= 2 THEN SplineBody(c) ELSE <<>>)

\* a frame whose LfGlobal has splines, before Splines::parse
InitSplines ==
    \E c \in SplineCases :
        /\ header = [HeaderOf(VarDct, NoCrop, 1) EXCEPT !.width = U32(c.dims[1]),
                                                        !.height = U32(c.dims[2])]
        /\ toc = TocOf(header, SingleKinds, 0)
        /\ bitstream = Bitstream(StreamOf(header, SingleKinds, [k \in AllKinds |-> 0]))
        /\ overflow_checks = c.overflow_checks
        /\ data = FrameData_new(header)
        /\ pending_groups = <<>>
        /\ decoder = SplineStream(c)
        /\ InitLocals

\* Splines::parse on the decoder
ParseSplines ==
    /\ op = "none" /\ pc = "idle"
    /\ \E p \in {Splines_parse(decoder, header, overflow_checks)} :
           /\ decoder' = p.dec
           /\ splines' = IF IsOk(p.r) THEN Some(Val(p.r)) ELSE None
           /\ Finish(p.r)
    /\ op' = "Splines::parse"
    /\ it' = 1
    /\ UNCHANGED <<header, toc, overflow_checks, loader_vars, spline, estimated_area,
                   upsampled>>

\* QuantSpline::dequant on the next spline of the parsed Splines
DequantSpline ==
    /\ op \in {"Splines::parse", "QuantSpline::dequant", "Spline::get_upsampled_points"}
    /\ pc = "idle"
    /\ IsSome(splines)
    /\ it <= Len(Unwrap(splines).quant_splines)
    /\ \E base_correlations_xb \in Correlations :
           \E d \in {QuantSpline_dequant(Unwrap(splines).quant_splines[it],
                                         Unwrap(splines).quant_adjust,
                                         base_correlations_xb, estimated_area,
                                         overflow_checks)} :
               /\ spline' = IF IsOk(d.r) THEN Some(Val(d.r)) ELSE None
               /\ estimated_area' = d.estimated_area
               /\ Finish(d.r)
    /\ op' = "QuantSpline::dequant"
    /\ it' = it + 1
    /\ upsampled' = None
    /\ UNCHANGED <<header, toc, overflow_checks, loader_vars, decoder, splines>>

\* Spline::get_upsampled_points on the Spline that dequant returned
UpsampleSpline ==
    /\ op = "QuantSpline::dequant"
    /\ pc = "idle"
    /\ IsSome(spline)
    /\ \E u \in {get_upsampled_points(Unwrap(spline).points)} :
           /\ upsampled' = IF IsOk(u) THEN Some(Val(u)) ELSE None
           /\ Finish(u)
    /\ op' = "Spline::get_upsampled_points"
    /\ UNCHANGED <<header, toc, overflow_checks, loader_vars, decoder, splines, spline,
                   estimated_area, it>>

\* the outcomes explored of the tests on interpolated points: none succeeds,
\* the one on the last point does, the ones on the second and the last do
FarChoices(up) == {{}, {Len(up) - 1}, {1, Len(up) - 1}}

\* Spline::get_samples on the Spline that dequant returned
SampleSpline ==
    /\ op = "QuantSpline::dequant"
    /\ pc = "idle"
    /\ IsSome(spline)
    /\ \E up \in {get_upsampled_points(Unwrap(spline).points)} :
           IF IsOk(up)
           THEN \E far \in FarChoices(Val(up)) : Finish(Ok(get_samples(Val(up), far)))
           ELSE Finish(up)
    /\ op' = "Spline::get_samples"
    /\ UNCHANGED <<header, toc, overflow_checks, loader_vars, decoder, splines, spline,
                   estimated_area, upsampled, it>>

NextSplines == ParseSplines \/ DequantSpline \/ UpsampleSpline \/ SampleSpline
SpecSplines == InitSplines /\ [][NextSplines]_vars

\* read_group hands the section to a parser unless it parks it
dispatch_parses(fd, kind) ==
    CASE kind[1] = "LfGroup" -> IsSome(fd.lf_global)
      [] kind[1] = "GroupPass" -> IsSome(fd.lf_global) /\ IsSome(fd.hf_global)
      [] OTHER -> TRUE

ParseFailure(r) == IF IsErr(r) /\ Val(r)[1] = "Parse" THEN Some(Val(r)[2]) ELSE None

\* history of one read_group call on `group` with outcome o
Track(group, fetched, o) ==
    /\ read' = IF fetched THEN read \cup {group.kind} ELSE read
    /\ parsed' = IF fetched /\ dispatch_parses(data, group.kind)
                 THEN parsed \cup {group.kind} ELSE parsed
    /\ failed' = IF IsSome(ParseFailure(o.r)) THEN ParseFailure(o.r) ELSE failed
    /\ UNCHANGED skipped

(***************************************************************************)
(* Frame::load_all                                                         *)
(***************************************************************************)
\* one section of load_all: skip_to_bookmark, then read_group
load_all_section(hd, fd, pg, bs, group, io_ok) ==
    LET fetch(sk) ==
            IF ~IsOk(sk) THEN Outcome(sk, fd, pg, bs)
            ELSE read_group(hd, fd, pg, Val(sk), group, io_ok)
    IN  fetch(skip_to_bookmark(bs, group.offset, io_ok))

load_all_call ==
    /\ op = "none"
    /\ op' = "load_all"
    /\ IF is_single_entry(toc)
       THEN \E io_ok \in BOOLEAN :
              \E o \in {load_all_section(header, data, pending_groups, bitstream,
                                        toc_lf_global(toc), io_ok)} :
                  /\ data' = o.data
                  /\ pending_groups' = o.pending_groups
                  /\ bitstream' = o.bs
                  /\ Finish(o.r)
                  /\ Track(toc_lf_global(toc), io_ok, o)
                  /\ UNCHANGED it
       ELSE /\ pc' = "load_all_loop"
            /\ it' = 1
            /\ UNCHANGED <<data, pending_groups, bitstream, result, hist_vars>>
    /\ UNCHANGED <<frame_vars, user_region, region, pending, par_vars>>

load_all_step ==
    /\ pc = "load_all_loop"
    /\ it <= Len(toc)
    /\ \E io_ok \in BOOLEAN :
         \E o \in {load_all_section(header, data, pending_groups, bitstream, toc[it], io_ok)} :
             /\ data' = o.data
             /\ pending_groups' = o.pending_groups
             /\ bitstream' = o.bs
             /\ Track(toc[it], io_ok, o)
             /\ IF IsOk(o.r)
                THEN /\ it' = it + 1
                     /\ UNCHANGED <<pc, result>>
                ELSE /\ Finish(o.r)
                     /\ UNCHANGED it
    /\ UNCHANGED <<frame_vars, op, user_region, region, pending, par_vars>>

load_all_return ==
    /\ pc = "load_all_loop"
    /\ it > Len(toc)
    /\ Finish(Ok(<<>>))
    /\ UNCHANGED <<frame_vars, bitstream, data, pending_groups, op, user_region, it,
                   region, pending, par_vars, hist_vars>>

(***************************************************************************)
(* Frame::load_cropped                                                     *)
(***************************************************************************)
\* the region arguments explored: the first group, the second group, inside the
\* LF group but beyond both groups, outside the frame, and one whose right
\* edge lies beyond the u32 range
FirstGroup == Some(<<U32(0), U32(0), U32(128), U32(128)>>)
SecondGroup == Some(<<U32(128), U32(0), U32(128), U32(128)>>)
BeyondGroups == Some(<<U32(256), U32(0), U32(10), U32(10)>>)
Outside == Some(<<U32(1024), U32(0), U32(1), U32(1)>>)
Overflowing == Some(<<U32(1), U32(0), U32Max, U32(1)>>)
UserRegions == {None, FirstGroup, SecondGroup, BeyondGroups, Outside, Overflowing}

\* a frame with a malformed section and a VarDct frame are loaded with two of
\* them, and so is a build with overflow checks (it differs on the last only)
RegionChoices ==
    IF BadByte \in Range(bitstream.src) \/ has_hf_global(header)
    THEN {None, SecondGroup}
    ELSE IF overflow_checks
    THEN {SecondGroup, Overflowing}
    ELSE UserRegions

load_cropped_call ==
    /\ op = "none"
    /\ op' = "load_cropped"
    /\ \E rg \in RegionChoices :
        /\ user_region' = rg
        /\ IF is_single_entry(toc)
           THEN \E io_ok \in BOOLEAN :
                  \E group \in {toc_lf_global(toc)} :
                  \E o \in {read_group(header, data, pending_groups, bitstream, group,
                                        io_ok)} :
                      /\ data' = o.data
                      /\ pending_groups' = o.pending_groups
                      /\ bitstream' = o.bs
                      /\ Finish(o.r)
                      /\ Track(group, io_ok, o)
                      /\ UNCHANGED <<it, region, pending>>
           ELSE \E t \in {translate_region(header, rg, overflow_checks)} :
                    /\ IF IsPanic(t)
                       THEN Finish(t) /\ UNCHANGED region
                       ELSE /\ region' = Val(t)
                            /\ pc' = "load_cropped_scan"
                            /\ UNCHANGED result
                    /\ it' = 1
                    /\ pending' = <<>>
                    /\ UNCHANGED <<data, pending_groups, bitstream, hist_vars>>
    /\ UNCHANGED <<frame_vars, par_vars>>

\* lines 96-124: buffer the sections that precede LfGlobal, read LfGlobal,
\* then adjust the region to its modular transforms
load_cropped_scan ==
    /\ pc = "load_cropped_scan"
    /\ IF it > Len(toc)
       THEN \* the loop ends; line 108 unwraps data.lf_global
            /\ IF IsSome(data.lf_global)
               THEN \E pl \in {plan_region(Unwrap(data.lf_global), region, overflow_checks)} :
                        IF IsPanic(pl) THEN Finish(pl) /\ UNCHANGED region
                        ELSE region' = Val(pl) /\ pc' = "load_cropped_loop"
                             /\ UNCHANGED result
               ELSE Finish(Panic("called Option::unwrap() on a None value"))
                    /\ UNCHANGED region
            /\ UNCHANGED <<data, pending_groups, bitstream, it, pending, hist_vars>>
       ELSE \E io_ok \in BOOLEAN :
            \E group \in {toc[it]} :
            \E sk \in {skip_to_bookmark(bitstream, group.offset, io_ok)} :
                IF ~IsOk(sk)
                THEN /\ Finish(sk)
                     /\ UNCHANGED <<data, pending_groups, bitstream, it, region, pending,
                                    hist_vars>>
                ELSE IF group.kind = KindLfGlobal
                THEN \E o \in {read_group(header, data, pending_groups, Val(sk), group,
                                           io_ok)} :
                     \E pl \in {IF IsOk(o.r)
                                 THEN plan_region(Unwrap(o.data.lf_global), region,
                                                  overflow_checks)
                                 ELSE o.r} :
                         /\ data' = o.data
                         /\ pending_groups' = o.pending_groups
                         /\ bitstream' = o.bs
                         /\ Track(group, TRUE, o)
                         /\ it' = it + 1
                         /\ UNCHANGED pending
                         /\ IF ~IsOk(o.r) THEN Finish(o.r) /\ UNCHANGED region
                            ELSE IF IsPanic(pl) THEN Finish(pl) /\ UNCHANGED region
                            ELSE /\ region' = Val(pl)
                                 /\ pc' = "load_cropped_loop"
                                 /\ UNCHANGED result
                ELSE \E b \in {read_bytes_aligned(Val(sk), group.size, io_ok)} :
                         /\ pending' = Append(pending, <<group, Val(b)[1]>>)
                         /\ bitstream' = Val(b)[2]
                         /\ it' = it + 1
                         /\ read' = read \cup {group.kind}
                         /\ UNCHANGED <<data, pending_groups, pc, result, region,
                                        parsed, skipped, failed>>
    /\ UNCHANGED <<frame_vars, op, user_region, par_vars>>

\* lines 126-158: one item of pending.into_iter().chain(it)
load_cropped_step ==
    /\ pc = "load_cropped_loop"
    /\ pending # <<>> \/ it <= Len(toc)
    /\ \E buffered \in {pending # <<>>} :
       \E group \in {IF buffered THEN Head(pending)[1] ELSE toc[it]} :
       \E keep \in {crop_keeps(header, region, group.kind, overflow_checks)} :
           /\ pending' = IF buffered THEN Tail(pending) ELSE pending
           /\ it' = IF buffered THEN it ELSE it + 1
           /\ IF IsPanic(keep)
              THEN /\ Finish(keep)
                   /\ UNCHANGED <<data, pending_groups, bitstream, hist_vars>>
              ELSE IF ~Val(keep)
              THEN /\ skipped' = skipped \cup {group.kind}
                   /\ UNCHANGED <<data, pending_groups, bitstream, pc, result, read,
                                  parsed, failed>>
              ELSE IF buffered
              THEN \E o \in {read_group(header, data, pending_groups,
                                       Bitstream(Head(pending)[2]), group, TRUE)} :
                       /\ data' = o.data
                       /\ pending_groups' = o.pending_groups
                       /\ Track(group, TRUE, o)
                       /\ IF IsOk(o.r) THEN UNCHANGED <<pc, result>> ELSE Finish(o.r)
                       /\ UNCHANGED bitstream
              ELSE \E io_ok \in BOOLEAN :
                   \E o \in {load_all_section(header, data, pending_groups, bitstream,
                                             group, io_ok)} :
                       /\ data' = o.data
                       /\ pending_groups' = o.pending_groups
                       /\ bitstream' = o.bs
                       /\ Track(group, io_ok, o)
                       /\ IF IsOk(o.r) THEN UNCHANGED <<pc, result>> ELSE Finish(o.r)
    /\ UNCHANGED <<frame_vars, op, user_region, region, par_vars>>

load_cropped_return ==
    /\ pc = "load_cropped_loop"
    /\ pending = <<>> /\ it > Len(toc)
    /\ Finish(Ok(<<>>))
    /\ UNCHANGED <<frame_vars, bitstream, data, pending_groups, op, user_region, it,
                   region, pending, par_vars, hist_vars>>

(***************************************************************************)
(* Frame::load_cropped_par                                                 *)
(***************************************************************************)
\* threads of a task that may still hold or await an item when another thread
\* of the task saves an error
MaxInFlight == 1

\* a send that reports success without queueing the item
send_lost(ch, item) ==
    IF ch.rx THEN Ok(ch)
    ELSE Panic("called Result::unwrap() on an Err value: SendError")

\* Sender::send(..).unwrap(): an unbounded channel takes the item unless every
\* receiver is gone
send(ch, item) ==
    IF ch.rx THEN Ok([ch EXCEPT !.q = Append(@, item)])
    ELSE Panic("called Result::unwrap() on an Err value: SendError")
drop_sender(ch) == [ch EXCEPT !.tx = FALSE]
drop_receiver(ch) == [ch EXCEPT !.rx = FALSE, !.q = <<>>]

\* the parallel loader is called with four of the regions
ParRegions == {None, SecondGroup, Outside, Overflowing}

load_cropped_par_call ==
    /\ op = "none"
    /\ op' = "load_cropped_par"
    /\ \E rg \in RegionChoices \cap ParRegions :
        /\ user_region' = rg
        /\ IF is_single_entry(toc)
           THEN \E io_ok \in BOOLEAN :
                  \E group \in {toc_lf_global(toc)} :
                  \E o \in {load_all_section(header, data, pending_groups, bitstream,
                                              group, io_ok)} :
                      /\ data' = o.data
                      /\ pending_groups' = o.pending_groups
                      /\ bitstream' = o.bs
                      /\ Finish(o.r)
                      /\ Track(group, io_ok, o)
                      /\ UNCHANGED <<it, region, lf_global, hf_global>>
           ELSE \E t \in {translate_region(header, rg, overflow_checks)} :
                    /\ IF IsPanic(t)
                       THEN /\ Finish(t)
                            /\ UNCHANGED <<region, data, lf_global, hf_global>>
                       ELSE /\ region' = Val(t)
                            \* lines 205-206: Option::take
                            /\ lf_global' = data.lf_global
                            /\ hf_global' = data.hf_global
                            /\ data' = [data EXCEPT !.lf_global = None, !.hf_global = None]
                            /\ pc' = "par_drain"
                            /\ UNCHANGED result
                    /\ it' = 1
                    /\ UNCHANGED <<pending_groups, bitstream, hist_vars>>
    /\ UNCHANGED <<frame_vars, pending, lf_group_ch, pass_group_ch, lf_worker, pass_worker,
                   lf_groups, pass_groups, io_result>>

\* lines 212-238: one turn of the loop that runs until both globals are read
par_drain ==
    /\ pc = "par_drain"
    /\ ~IsSome(lf_global) \/ ~IsSome(hf_global)
    /\ IF it > Len(toc)
       THEN /\ Finish(Panic("lf_global or hf_global not found?"))
            /\ UNCHANGED <<bitstream, it, lf_global, hf_global, lf_group_ch,
                           pass_group_ch, hist_vars>>
       ELSE \E io_ok \in BOOLEAN :
            \E group \in {toc[it]} :
            \E sk \in {skip_to_bookmark(bitstream, group.offset, io_ok)} :
            \E b \in {IF IsOk(sk) THEN read_bytes_aligned(Val(sk), group.size, io_ok)
                      ELSE sk} :
                /\ it' = it + 1
                /\ IF ~IsOk(sk)
                   THEN /\ Finish(sk)
                        /\ UNCHANGED <<bitstream, lf_global, hf_global, lf_group_ch,
                                       pass_group_ch, hist_vars>>
                   ELSE IF group.kind = KindHfGlobal
                   THEN \E p \in {read_hf_global(header, Val(sk), io_ok)} :
                            /\ bitstream' = p.bs
                            /\ read' = read \cup {group.kind}
                            /\ parsed' = parsed \cup {group.kind}
                            /\ IF IsOk(p.r)
                               THEN hf_global' = Some(Val(p.r)) /\ UNCHANGED <<pc, result>>
                               ELSE Finish(p.r) /\ UNCHANGED hf_global
                            /\ UNCHANGED <<lf_global, lf_group_ch, pass_group_ch, skipped,
                                           failed>>
                   ELSE IF ~IsOk(b)
                   THEN /\ Finish(b)
                        /\ bitstream' = Val(sk)
                        /\ UNCHANGED <<lf_global, hf_global, lf_group_ch, pass_group_ch,
                                       hist_vars>>
                   ELSE /\ bitstream' = Val(b)[2]
                        /\ read' = read \cup {group.kind}
                        /\ UNCHANGED <<hf_global, skipped>>
                        /\ CASE group.kind = KindLfGlobal ->
                                  \E p \in {read_lf_global(header, Bitstream(Val(b)[1]), TRUE)} :
                                      /\ parsed' = parsed \cup {group.kind}
                                      /\ failed' = IF IsSome(ParseFailure(p.r))
                                                   THEN ParseFailure(p.r) ELSE failed
                                      /\ IF IsOk(p.r)
                                         THEN lf_global' = Some(Val(p.r))
                                              /\ UNCHANGED <<pc, result>>
                                         ELSE Finish(p.r) /\ UNCHANGED lf_global
                                      /\ UNCHANGED <<lf_group_ch, pass_group_ch>>
                             [] group.kind[1] = "LfGroup" ->
                                  \E sd \in {send(lf_group_ch, <<group.kind, Val(b)[1]>>)} :
                                      /\ IF IsOk(sd)
                                         THEN lf_group_ch' = Val(sd)
                                              /\ UNCHANGED <<pc, result>>
                                         ELSE Finish(sd) /\ UNCHANGED lf_group_ch
                                      /\ UNCHANGED <<lf_global, pass_group_ch, parsed, failed>>
                             [] group.kind[1] = "GroupPass" ->
                                  \E sd \in {send(pass_group_ch, <<group.kind, Val(b)[1]>>)} :
                                      /\ IF IsOk(sd)
                                         THEN pass_group_ch' = Val(sd)
                                              /\ UNCHANGED <<pc, result>>
                                         ELSE Finish(sd) /\ UNCHANGED pass_group_ch
                                      /\ UNCHANGED <<lf_global, lf_group_ch, parsed, failed>>
                             [] OTHER ->
                                  /\ Finish(Panic("internal error: entered unreachable code"))
                                  /\ UNCHANGED <<lf_global, lf_group_ch, pass_group_ch,
                                                 parsed, failed>>
    /\ UNCHANGED <<frame_vars, data, pending_groups, op, user_region, region, pending,
                   lf_worker, pass_worker, lf_groups, pass_groups, io_result>>

\* lines 240-268, 287: install the globals, adjust the region, spawn both tasks
par_spawn ==
    /\ pc = "par_drain"
    /\ IsSome(lf_global) /\ IsSome(hf_global)
    /\ data' = [data EXCEPT !.lf_global = lf_global, !.hf_global = hf_global]
    /\ \E pl \in {plan_region(Unwrap(lf_global), region, overflow_checks)} :
           IF IsPanic(pl)
           THEN /\ Finish(pl)
                /\ UNCHANGED <<region, lf_worker, pass_worker>>
           ELSE /\ region' = Val(pl)
                /\ pc' = "par_scope"
                /\ lf_worker' = [lf_worker EXCEPT !.st = "running"]
                /\ pass_worker' = [pass_worker EXCEPT !.st = "running"]
                /\ UNCHANGED result
    /\ UNCHANGED <<frame_vars, bitstream, pending_groups, op, user_region, it, pending,
                   lf_global, hf_global, lf_group_ch, pass_group_ch, lf_groups,
                   pass_groups, io_result, hist_vars>>

\* a scope closure that ends with the senders still alive
LeaveScope_keeps_senders(r, lf_ch, pass_ch) ==
    /\ io_result' = r
    /\ lf_group_ch' = lf_ch
    /\ pass_group_ch' = pass_ch
    /\ pc' = "par_join"

\* the scope closure ends: both senders are dropped with it
LeaveScope(r, lf_ch, pass_ch) ==
    /\ io_result' = r
    /\ lf_group_ch' = drop_sender(lf_ch)
    /\ pass_group_ch' = drop_sender(pass_ch)
    /\ pc' = "par_join"

\* lines 307-319: one section of the main task inside the scope
par_main_step ==
    /\ pc = "par_scope"
    /\ it <= Len(toc)
    /\ \E io_ok \in BOOLEAN :
        \E group \in {toc[it]} :
        \E sk \in {skip_to_bookmark(bitstream, group.offset, io_ok)} :
        \E b \in {IF IsOk(sk) THEN read_bytes_aligned(Val(sk), group.size, io_ok)
                  ELSE sk} :
            /\ it' = it + 1
            /\ IF ~IsOk(sk)
               THEN /\ LeaveScope(sk, lf_group_ch, pass_group_ch)
                    /\ UNCHANGED <<bitstream, read>>
               ELSE IF ~IsOk(b)
               THEN /\ LeaveScope(b, lf_group_ch, pass_group_ch)
                    /\ bitstream' = Val(sk)
                    /\ UNCHANGED read
               ELSE /\ bitstream' = Val(b)[2]
                    /\ read' = read \cup {group.kind}
                    /\ CASE group.kind[1] = "LfGroup" ->
                              \E sd \in {send(lf_group_ch, <<group.kind, Val(b)[1]>>)} :
                                  IF IsOk(sd)
                                  THEN /\ lf_group_ch' = Val(sd)
                                       /\ UNCHANGED <<pass_group_ch, pc, io_result>>
                                  ELSE LeaveScope(sd, lf_group_ch, pass_group_ch)
                         [] group.kind[1] = "GroupPass" ->
                              \E sd \in {send(pass_group_ch, <<group.kind, Val(b)[1]>>)} :
                                  IF IsOk(sd)
                                  THEN /\ pass_group_ch' = Val(sd)
                                       /\ UNCHANGED <<lf_group_ch, pc, io_result>>
                                  ELSE LeaveScope(sd, lf_group_ch, pass_group_ch)
                         [] OTHER -> UNCHANGED <<lf_group_ch, pass_group_ch, pc, io_result>>
    /\ UNCHANGED <<frame_vars, data, pending_groups, op, result, user_region, region,
                   pending, lf_global, hf_global, lf_worker, pass_worker, lf_groups,
                   pass_groups, parsed, skipped, failed>>

\* line 321: the main task has pushed every section
par_main_end ==
    /\ pc = "par_scope"
    /\ it > Len(toc)
    /\ LeaveScope(Ok(<<>>), lf_group_ch, pass_group_ch)
    /\ UNCHANGED <<frame_vars, bitstream, data, pending_groups, op, result, user_region,
                   it, region, pending, lf_global, hf_global, lf_worker, pass_worker,
                   lf_groups, pass_groups, hist_vars>>

\* a task is scheduled once it is spawned
Spawned(w) == w.st = "running"

\* par_bridge: a thread of the task takes an item of the channel unless an
\* error was saved before it asked; items taken by different threads are
\* processed in any order
worker_takes(w, ch, i) ==
    /\ Spawned(w)
    /\ ~w.panicked
    /\ i \in DOMAIN ch.q
    /\ IsSome(w.err) => w.late < MaxInFlight

take(ch, i) ==
    [ch EXCEPT !.q = [k \in 1..(Len(ch.q) - 1) |-> IF k < i THEN ch.q[k] ELSE ch.q[k + 1]]]

\* the parse of one queued section by its task (the closure given to map)
worker_parse(hd, fd, item) ==
    IF item[1][1] = "LfGroup"
    THEN read_lf_group(hd, Bitstream(item[2]), Unwrap(fd.lf_global), item[1][3], TRUE).r
    ELSE read_group_pass(hd, Bitstream(item[2]), Unwrap(fd.lf_global),
                         Unwrap(fd.hf_global), item[1][2], item[1][3], TRUE).r

worker_key(kind) == IF kind[1] = "LfGroup" THEN kind[3] ELSE <<kind[2], kind[3]>>

\* a collector that keys a value by its arrival position instead of its index
worker_process_arrival(w, item, hd, fd, rg, oc) ==
    LET arrival(kind) ==
            IF kind[1] = "LfGroup" THEN Cardinality(DOMAIN w.acc)
            ELSE <<kind[2], Cardinality(DOMAIN w.acc)>>
        collect(v, p) ==
            IF IsOk(p)
            THEN [v EXCEPT !.acc = IF IsSome(w.err) THEN @
                                   ELSE MapInsert(@, arrival(item[1]), Val(p))]
            ELSE [v EXCEPT !.err = IF IsSome(@) THEN @ ELSE Some(Val(p))]
        filter(v, keep) ==
            IF IsPanic(keep) THEN [v EXCEPT !.panicked = TRUE]
            ELSE IF ~Val(keep) THEN v
            ELSE collect(v, worker_parse(hd, fd, item))
    IN  filter([w EXCEPT !.late = IF IsSome(w.err) THEN @ + 1 ELSE @],
               crop_keeps(hd, rg, item[1], oc))

\* filter, map and the Result collector on one item
worker_process(w, item, hd, fd, rg, oc) ==
    LET collect(v, p) ==
            IF IsOk(p)
            THEN [v EXCEPT !.acc = IF IsSome(w.err) THEN @
                                   ELSE MapInsert(@, worker_key(item[1]), Val(p))]
            ELSE [v EXCEPT !.err = IF IsSome(@) THEN @ ELSE Some(Val(p))]
        filter(v, keep) ==
            IF IsPanic(keep) THEN [v EXCEPT !.panicked = TRUE]
            ELSE IF ~Val(keep) THEN v
            ELSE collect(v, worker_parse(hd, fd, item))
    IN  filter([w EXCEPT !.late = IF IsSome(w.err) THEN @ + 1 ELSE @],
               crop_keeps(hd, rg, item[1], oc))

\* the task ends when the channel is drained and closed, or an error stopped it
worker_can_finish(w, ch) ==
    /\ Spawned(w)
    /\ \/ ch.q = <<>> /\ ~ch.tx
       \/ IsSome(w.err)
       \/ w.panicked
worker_result(w) == IF IsSome(w.err) THEN Err(Unwrap(w.err)) ELSE Ok(w.acc)

TrackWorker(item) ==
    \E kind \in {item[1]} :
    \E keep \in {crop_keeps(header, region, kind, overflow_checks)} :
    \E p \in {worker_parse(header, data, item)} :
        /\ skipped' = IF IsOk(keep) /\ ~Val(keep) THEN skipped \cup {kind} ELSE skipped
        /\ parsed' = IF IsOk(keep) /\ Val(keep) THEN parsed \cup {kind} ELSE parsed
        /\ failed' = IF IsOk(keep) /\ Val(keep) /\ IsSome(ParseFailure(p)) /\ ~IsSome(failed)
                     THEN ParseFailure(p) ELSE failed
        /\ UNCHANGED read

lf_worker_step ==
    \E i \in DOMAIN lf_group_ch.q :
        /\ worker_takes(lf_worker, lf_group_ch, i)
        /\ lf_group_ch' = take(lf_group_ch, i)
        /\ lf_worker' = worker_process(lf_worker, lf_group_ch.q[i], header, data, region,
                                       overflow_checks)
        /\ TrackWorker(lf_group_ch.q[i])
        /\ UNCHANGED <<frame_vars, bitstream, data, pending_groups, op, pc, result,
                       user_region, it, region, pending, lf_global, hf_global,
                       pass_group_ch, pass_worker, lf_groups, pass_groups, io_result>>

pass_worker_step ==
    \E i \in DOMAIN pass_group_ch.q :
        /\ worker_takes(pass_worker, pass_group_ch, i)
        /\ pass_group_ch' = take(pass_group_ch, i)
        /\ pass_worker' = worker_process(pass_worker, pass_group_ch.q[i], header, data,
                                         region, overflow_checks)
        /\ TrackWorker(pass_group_ch.q[i])
        /\ UNCHANGED <<frame_vars, bitstream, data, pending_groups, op, pc, result,
                       user_region, it, region, pending, lf_global, hf_global,
                       lf_group_ch, lf_worker, lf_groups, pass_groups, io_result>>

\* the task stores its collected Result and drops its receiver
lf_worker_finish ==
    /\ worker_can_finish(lf_worker, lf_group_ch)
    /\ lf_worker' = [lf_worker EXCEPT !.st = "done"]
    /\ lf_groups' = IF lf_worker.panicked THEN lf_groups ELSE worker_result(lf_worker)
    /\ lf_group_ch' = drop_receiver(lf_group_ch)
    /\ UNCHANGED <<frame_vars, bitstream, data, pending_groups, op, pc, result,
                   user_region, it, region, pending, lf_global, hf_global, pass_group_ch,
                   pass_worker, pass_groups, io_result, hist_vars>>

pass_worker_finish ==
    /\ worker_can_finish(pass_worker, pass_group_ch)
    /\ pass_worker' = [pass_worker EXCEPT !.st = "done"]
    /\ pass_groups' = IF pass_worker.panicked THEN pass_groups
                      ELSE worker_result(pass_worker)
    /\ pass_group_ch' = drop_receiver(pass_group_ch)
    /\ UNCHANGED <<frame_vars, bitstream, data, pending_groups, op, pc, result,
                   user_region, it, region, pending, lf_global, hf_global, lf_group_ch,
                   lf_worker, lf_groups, io_result, hist_vars>>

\* lines 324-328 on the three results
install(fd, io_r, lf_r, pass_r) ==
    IF ~IsOk(io_r) THEN [r |-> io_r, data |-> fd]
    ELSE IF ~IsOk(lf_r) THEN [r |-> lf_r, data |-> fd]
    ELSE IF ~IsOk(pass_r) THEN [r |-> pass_r, data |-> [fd EXCEPT !.lf_group = Val(lf_r)]]
    ELSE [r |-> Ok(<<>>),
          data |-> [fd EXCEPT !.lf_group = Val(lf_r), !.group_pass = Val(pass_r)]]

\* a join that waits for the LF-group task only
par_join_early ==
    /\ pc = "par_join"
    /\ lf_worker.st = "done"
    /\ IF IsPanic(io_result)
       THEN Finish(io_result) /\ UNCHANGED data
       ELSE IF lf_worker.panicked \/ pass_worker.panicked
       THEN Finish(Panic("attempt to add with overflow")) /\ UNCHANGED data
       ELSE \E o \in {install(data, io_result, lf_groups, pass_groups)} :
                data' = o.data /\ Finish(o.r)
    /\ UNCHANGED <<frame_vars, bitstream, pending_groups, op, user_region, it, region,
                   pending, par_vars, hist_vars>>

\* rayon::scope returns once both tasks have ended (a panic of the closure or
\* of a task is resumed then); lines 324-328 follow
par_join ==
    /\ pc = "par_join"
    /\ lf_worker.st = "done" /\ pass_worker.st = "done"
    /\ IF IsPanic(io_result)
       THEN Finish(io_result) /\ UNCHANGED data
       ELSE IF lf_worker.panicked \/ pass_worker.panicked
       THEN Finish(Panic("attempt to add with overflow")) /\ UNCHANGED data
       ELSE \E o \in {install(data, io_result, lf_groups, pass_groups)} :
                data' = o.data /\ Finish(o.r)
    /\ UNCHANGED <<frame_vars, bitstream, pending_groups, op, user_region, it, region,
                   pending, par_vars, hist_vars>>

(***************************************************************************)
(* Frame::complete                                                         *)
(***************************************************************************)
complete ==
    /\ pc = "idle"
    /\ op # "complete"
    /\ op' = "complete"
    /\ \E c \in {FrameData_complete(data)} :
           /\ data' = c.data
           /\ Finish(c.r)
    /\ UNCHANGED <<frame_vars, bitstream, pending_groups, user_region, it, region,
                   pending, par_vars, hist_vars>>

NextSerial ==
    \/ load_all_call
    \/ load_all_step
    \/ load_all_return
    \/ load_cropped_call
    \/ load_cropped_scan
    \/ load_cropped_step
    \/ load_cropped_return
    \/ complete

NextPar ==
    \/ load_cropped_par_call
    \/ par_drain
    \/ par_spawn
    \/ par_main_step
    \/ par_main_end
    \/ lf_worker_step
    \/ lf_worker_finish
    \/ pass_worker_step
    \/ pass_worker_finish
    \/ par_join
    \/ complete

\* the serial loaders on a frame of one group, then complete
SpecSerial == InitFrame(OneGroup) /\ [][NextSerial]_vars

\* the parallel loader on a frame of two groups, then complete
SpecPar == InitFrame(TwoGroups) /\ [][NextPar]_vars

\* any one loader on a frame of one group, then complete
NextLoaders == NextSerial \/ NextPar
SpecLoaders == InitFrame(OneGroup) /\ [][NextLoaders]_vars

\* a step of a started call: of the calling thread or of a spawned task
ParRun ==
    \/ par_drain \/ par_spawn \/ par_main_step \/ par_main_end
    \/ lf_worker_step \/ lf_worker_finish
    \/ pass_worker_step \/ pass_worker_finish
    \/ par_join

\* while a thread of the call can take a step, one of them does
FairPar == WF_vars(ParRun)

\* the parallel loader on a frame of one group under that scheduling
SpecParFair == InitFrame(OneGroup) /\ [][NextPar]_vars /\ FairPar

(***************************************************************************)
(* load_all as a function of the frame: every section in TOC order from a  *)
(* fresh FrameData, with a reader that never fails.                        *)
(***************************************************************************)
RECURSIVE load_all_from(_, _, _, _)
load_all_from(hd, t, i, o) ==
    IF i > Len(t) \/ ~IsOk(o.r) THEN o
    ELSE load_all_from(hd, t, i + 1,
                       load_all_section(hd, o.data, o.pending_groups, o.bs, t[i], TRUE))

load_all_run(hd, t, src) ==
    load_all_from(hd, t, 1, Outcome(Ok(<<>>), FrameData_new(hd), <<>>, Bitstream(src)))

\* the bytes of the section of `kind` in the stream
SectionBytes(t, src, kind) ==
    SubSeq(src, t[TocIndex(t, kind)].offset + 1,
           t[TocIndex(t, kind)].offset + t[TocIndex(t, kind)].size)

\* the sections of the TOC in dependency order: LfGlobal, the LF groups,
\* HfGlobal, the pass groups
DependencyOrder(t) ==
    SelectSeq(<<KindLfGlobal, KindLfGroup(0), KindHfGlobal, KindGroupPass(0, 0),
                KindGroupPass(0, 1)>>,
              LAMBDA k : k \in TocKinds(t))

RECURSIVE Rearranged(_, _, _)
Rearranged(t, src, order) ==
    IF order = <<>> THEN <<>>
    ELSE SectionBytes(t, src, Head(order)) \o Rearranged(t, src, Tail(order))

Precedes(t, k1, k2) == TocIndex(t, k1) < TocIndex(t, k2)

\* the frame read by the call, before the call moved the read position
Source == bitstream.src

(***************************************************************************)
(* Claims.                                                                 *)
(***************************************************************************)
\* C1: when LfGroup(0) precedes LfGlobal in a multi-entry TOC, a load_all that
\* returns Ok leaves the FrameData that load_all produces from the same
\* sections arranged in dependency order.
C1_OutOfOrderMatchesInOrder ==
    ( /\ op = "load_all" /\ pc = "idle" /\ IsOk(result)
      /\ ~is_single_entry(toc)
      /\ Precedes(toc, KindLfGroup(0), KindLfGlobal) )
    => data = load_all_run(header, TocOf(header, DependencyOrder(toc), 0),
                           Rearranged(toc, Source, DependencyOrder(toc))).data

\* C2: on a valid frame (every section well-formed, any TOC order) the
\* parallel loader without region, load_all_par, leaves the FrameData that
\* load_all leaves on the same frame.
C2_SerialParallelEquivalence ==
    ( /\ op = "load_cropped_par" /\ pc = "idle" /\ IsOk(result)
      /\ user_region = None
      /\ IsOk(load_all_run(header, toc, Source).r) )
    => data = load_all_run(header, toc, Source).data

IsGroupKind(k) == k[1] \in {"LfGroup", "GroupPass"}
QueueOf(k) == IF k[1] = "LfGroup" THEN lf_group_ch.q ELSE pass_group_ch.q

\* C3: in load_cropped_par a group section is parsed only after lf_global was
\* parsed and hf_global was read and both were stored in data; while the
\* loader still looks for them, every group section read so far sits in its
\* queue as its untouched bytes; every value a worker parsed carries the
\* stored lf_global (and hf_global).
C3_DependencyOrdering ==
    (op = "load_cropped_par" /\ ~is_single_entry(toc)) =>
        /\ (\E k \in parsed : IsGroupKind(k)) =>
              /\ KindLfGlobal \in parsed
              /\ has_hf_global(header) => KindHfGlobal \in parsed
              /\ IsSome(data.lf_global) /\ IsSome(data.hf_global)
        /\ pc = "par_drain" =>
              /\ ~Spawned(lf_worker) /\ ~Spawned(pass_worker)
              /\ \A k \in read :
                    IsGroupKind(k) =>
                       /\ k \notin parsed
                       /\ <<k, SectionBytes(toc, Source, k)>> \in Range(QueueOf(k))
        /\ \A m \in {lf_worker.acc, data.lf_group} :
              \A i \in DOMAIN m : m[i].lf_global = Unwrap(data.lf_global).src
        /\ \A m \in {pass_worker.acc, data.group_pass} :
              \A i \in DOMAIN m :
                 /\ m[i].lf_global = Unwrap(data.lf_global).src
                 /\ m[i].hf_global = Unwrap(data.hf_global)

\* a worker has parsed an LF group that the TOC lists before LfGlobal, and
\* the call returned Ok
C3_Witness ==
    /\ op = "load_cropped_par" /\ pc = "idle" /\ IsOk(result)
    /\ ~is_single_entry(toc)
    /\ Precedes(toc, KindLfGroup(0), KindLfGlobal)
    /\ KindLfGroup(0) \in parsed
    /\ 0 \in DOMAIN data.lf_group

\* C4: when load_cropped_par returns an error, data.lf_group and
\* data.group_pass are what they were before the call (the maps of a new
\* FrameData: the call is the first on the frame).
C4_FailureAtomicity ==
    (op = "load_cropped_par" /\ pc = "idle" /\ IsErr(result)) =>
        /\ data.lf_group = FrameData_new(header).lf_group
        /\ data.group_pass = FrameData_new(header).group_pass

\* C5: when a worker's parse failed in load_cropped_par and the reader never
\* failed, the call ends by returning a parse error, without a panic, after
\* the main task has read every section of the TOC.
C5_CooperativeCancellation ==
    ( /\ op = "load_cropped_par" /\ ~is_single_entry(toc)
      /\ IsSome(lf_worker.err) \/ IsSome(pass_worker.err)
      /\ io_result # Err(IoError) )
    => /\ pc # "panicked"
       /\ ~IsPanic(io_result)
       /\ pc = "idle" => /\ IsErr(result) /\ Val(result)[1] = "Parse"
                         /\ read = TocKinds(toc)

\* the call has ended: both senders are closed, both tasks have ended, and
\* a call that returned Ok has installed the collected maps
Joined ==
    /\ pc \in {"idle", "panicked"}
    /\ ~lf_group_ch.tx /\ ~pass_group_ch.tx
    /\ lf_worker.st = "done" /\ pass_worker.st = "done"
    /\ (op = "load_cropped_par" /\ IsOk(result)) =>
          /\ data.lf_group = Val(lf_groups)
          /\ data.group_pass = Val(pass_groups)

\* C6: once the main task of load_cropped_par has pushed the last section of
\* the TOC, the senders get closed, both workers end and the call ends (by
\* returning, or by resuming a worker's panic), its maps installed on success.
C6_Termination ==
    (op = "load_cropped_par" /\ pc = "par_scope" /\ it > Len(toc)) ~> Joined

\* the call returned Ok after both workers parsed a section and ended
C6_Witness ==
    /\ op = "load_cropped_par" /\ pc = "idle" /\ IsOk(result)
    /\ it > Len(toc)
    /\ lf_worker.st = "done" /\ pass_worker.st = "done"
    /\ DOMAIN data.lf_group = {0} /\ DOMAIN data.group_pass = {<<0, 0>>}

\* the sections the serial dispatcher was given while their dependency was
\* missing: fetched, neither parsed nor dropped by the crop test, and no longer
\* in the local buffer of load_cropped
Parked ==
    {k \in read : /\ IsGroupKind(k)
                  /\ k \notin parsed \cup skipped
                  /\ \A i \in DOMAIN pending : pending[i][1].kind # k}

\* C7: a section the serial dispatcher parks is in pending_groups under its
\* kind with exactly its size bytes of the bitstream, and a step never removes
\* or changes an entry of pending_groups.
C7_PendingPreserved ==
    /\ [](op \in {"load_all", "load_cropped"} =>
            /\ pc # "panicked" => \A k \in Parked : k \in DOMAIN pending_groups
            /\ \A k \in DOMAIN pending_groups :
                  /\ Len(pending_groups[k]) = toc[TocIndex(toc, k)].size
                  /\ pending_groups[k] = SectionBytes(toc, Source, k))
    /\ [][\A k \in DOMAIN pending_groups :
             /\ k \in DOMAIN pending_groups'
             /\ pending_groups'[k] = pending_groups[k]]_vars

\* load_all has parked both groups, then read LfGlobal, and both entries are
\* still in the buffer
C7_Witness ==
    /\ op = "load_all" /\ pc = "load_all_loop"
    /\ IsSome(data.lf_global)
    /\ DOMAIN pending_groups = {KindLfGroup(0), KindGroupPass(0, 0)}

\* C8: complete on a frame whose lf_global is None returns
\* IncompleteFrameData("lf_global") (and Ok otherwise), and no other
\* operation returns IncompleteFrameData.
C8_CompleteReportsMissing ==
    /\ op = "complete" =>
          result = IF IsSome(data.lf_global) THEN Ok(<<>>)
                   ELSE Err(IncompleteFrameData("lf_global"))
    /\ (op # "complete" /\ IsErr(result)) => Val(result)[1] # "IncompleteFrameData"

\* complete was called after a loader that ended without lf_global
C8_Witness ==
    /\ op = "complete"
    /\ read # {}
    /\ ~IsSome(data.lf_global)
    /\ result = Err(IncompleteFrameData("lf_global"))

\* the value the parser of a group section yields from the section's bytes
Parse(k) ==
    worker_parse(header, data, <<k, SectionBytes(toc, Source, k)>>)

Lt3(a, b) ==
    \/ a[1] < b[1]
    \/ a[1] = b[1] /\ a[2] < b[2]
    \/ a[1] = b[1] /\ a[2] = b[2] /\ a[3] < b[3]
Wide(a) == <<0, a[1], a[2]>>
Overlaps(rect0, rect1) ==
    /\ Lt3(Wide(rect0[1]), U32Sum(rect1[1], rect1[3]))
    /\ Lt3(Wide(rect1[1]), U32Sum(rect0[1], rect0[3]))
    /\ Lt3(Wide(rect0[2]), U32Sum(rect1[2], rect1[4]))
    /\ Lt3(Wide(rect1[2]), U32Sum(rect0[2], rect0[4]))

FootprintOf(k) ==
    IF k[1] = "LfGroup"
    THEN footprint(k[3], lf_groups_per_row(header), lf_group_dim(header))
    ELSE footprint(k[3], groups_per_row(header), group_dim(header))

\* C10: in load_cropped and load_cropped_par, once the effective region is
\* fixed, a group section that reached the crop test was skipped iff the
\* region does not overlap its footprint; with no region nothing is skipped;
\* LfGlobal and HfGlobal are never skipped.
C10_CropFilter ==
    ( /\ op \in {"load_cropped", "load_cropped_par"}
      /\ pc \in {"load_cropped_loop", "par_scope", "par_join", "idle"} )
    => /\ \A k \in skipped : IsGroupKind(k)
       /\ ~IsSome(region) => skipped = {}
       /\ IsSome(region) =>
             \A k \in parsed \cup skipped :
                IsGroupKind(k) =>
                   (k \in skipped <=> ~Overlaps(Unwrap(region), FootprintOf(k)))

\* a cropped loader on a multi-entry frame without crop offset has read
\* LfGlobal (and, in the parallel loader, stored it: lines 240-257)
Planned ==
    /\ op \in {"load_cropped", "load_cropped_par"}
    /\ ~is_single_entry(toc)
    /\ ~header.have_crop
    /\ IsSome(data.lf_global)

\* C11: when LfGlobal has squeeze and no delta palette and the user region is
\* (left, top, width, height), the region the loader filters with is
\* (0, 0, width + left, height + top), the sums taken as integers.
C11_SqueezeExpands ==
    ( /\ Planned
      /\ IsSome(user_region)
      /\ has_squeeze(Unwrap(data.lf_global))
      /\ ~has_delta_palette(Unwrap(data.lf_global)) )
    => /\ IsSome(region)
       /\ Unwrap(region)[1] = U32Zero
       /\ Unwrap(region)[2] = U32Zero
       /\ Wide(Unwrap(region)[3]) = U32Sum(Unwrap(user_region)[3], Unwrap(user_region)[1])
       /\ Wide(Unwrap(region)[4]) = U32Sum(Unwrap(user_region)[4], Unwrap(user_region)[2])

\* C12: when LfGlobal has a delta palette (with or without squeeze), a cropped
\* loader filters with no region whatever region the caller gave: no section
\* is skipped, and a call that returns Ok has parsed every group section.
C12_DeltaPaletteFullDecode ==
    ( /\ op \in {"load_cropped", "load_cropped_par"}
      /\ ~is_single_entry(toc)
      /\ IsSome(data.lf_global)
      /\ has_delta_palette(Unwrap(data.lf_global)) )
    => /\ region = None
       /\ skipped = {}
       /\ pc # "panicked"
       /\ (pc = "idle" /\ IsOk(result)) =>
              \A k \in TocKinds(toc) : IsGroupKind(k) => k \in parsed

\* the parallel loader was given a region beside the only group of a frame
\* with delta palette and squeeze, and parsed the group
C12_Witness ==
    /\ op = "load_cropped_par" /\ pc = "idle" /\ IsOk(result)
    /\ user_region = SecondGroup
    /\ has_delta_palette(Unwrap(data.lf_global))
    /\ has_squeeze(Unwrap(data.lf_global))
    /\ KindGroupPass(0, 0) \in parsed
    /\ <<0, 0>> \in DOMAIN data.group_pass

\* left - x0 as an integer, clamped into the u32 range
SatSub(u, x0) ==
    IF x0 >= 0
    THEN IF U32Lt(u, U32(x0)) THEN U32Zero ELSE U32Diff(u, U32(x0))
    ELSE LET clamp(s) == IF s[1] = 1 THEN U32Max ELSE <<s[2], s[3]>>
         IN  clamp(U32Sum(u, IF x0 = I32Min THEN <<Half \div 2, 0>> ELSE U32(-x0)))

\* C13: once a cropped loader has translated the region of the call, left and
\* top are left - x0 and top - y0 clamped into the u32 range and width and
\* height are the caller's, when the frame has a crop offset and a region was
\* given; otherwise the region is the caller's.
C13_CropTranslation ==
    ( /\ op \in {"load_cropped", "load_cropped_par"}
      /\ ~is_single_entry(toc)
      /\ pc \in {"load_cropped_scan", "par_drain"} )
    => region = IF IsSome(user_region) /\ header.have_crop
                THEN Some(<<SatSub(Unwrap(user_region)[1], header.x0),
                            SatSub(Unwrap(user_region)[2], header.y0),
                            Unwrap(user_region)[3], Unwrap(user_region)[4]>>)
                ELSE user_region

\* C14: for the region a cropped loader filters with and the footprint of
\* every group section of the frame, is_aabb_collides is true iff the two
\* rectangles overlap (the sums x + w and y + h taken as integers), and it
\* yields the same with its arguments exchanged.
C14_AabbCollides ==
    ( /\ op \in {"load_cropped", "load_cropped_par"}
      /\ pc \in {"load_cropped_loop", "par_scope"}
      /\ IsSome(region) )
    => \A k \in TocKinds(toc) :
          IsGroupKind(k) =>
             /\ is_aabb_collides(Unwrap(region), FootprintOf(k), overflow_checks)
                   = Ok(Overlaps(Unwrap(region), FootprintOf(k)))
             /\ is_aabb_collides(FootprintOf(k), Unwrap(region), overflow_checks)
                   = is_aabb_collides(Unwrap(region), FootprintOf(k), overflow_checks)

\* C15: in load_cropped_par the collector and the result map of a task change
\* only by a step of that task while it runs (the result map when the task
\* ends, to what it collected); data.lf_group and data.group_pass change only
\* after both tasks have ended; data.lf_global and data.hf_global do not
\* change while a task runs.
C15_Ownership ==
    [][ /\ lf_worker'.acc # lf_worker.acc =>
              Spawned(lf_worker) /\ pass_worker' = pass_worker /\ pc' = pc
        /\ pass_worker'.acc # pass_worker.acc =>
              Spawned(pass_worker) /\ lf_worker' = lf_worker /\ pc' = pc
        /\ lf_groups' # lf_groups =>
              /\ Spawned(lf_worker) /\ lf_worker'.st = "done"
              /\ lf_groups' = worker_result(lf_worker)
              /\ pass_worker' = pass_worker /\ pc' = pc
        /\ pass_groups' # pass_groups =>
              /\ Spawned(pass_worker) /\ pass_worker'.st = "done"
              /\ pass_groups' = worker_result(pass_worker)
              /\ lf_worker' = lf_worker /\ pc' = pc
        /\ (data'.lf_group # data.lf_group \/ data'.group_pass # data.group_pass) =>
              lf_worker.st # "running" /\ pass_worker.st # "running"
        /\ (Spawned(lf_worker) \/ Spawned(pass_worker)) =>
              /\ data'.lf_global = data.lf_global
              /\ data'.hf_global = data.hf_global ]_vars

\* both tasks have collected a section and ended, and the call has moved
\* their maps into data
C15_Witness ==
    /\ op = "load_cropped_par" /\ pc = "idle" /\ IsOk(result)
    /\ lf_groups = Ok(data.lf_group) /\ pass_groups = Ok(data.group_pass)
    /\ DOMAIN data.lf_group = {0}
    /\ DOMAIN data.group_pass = {<<0, 0>>, <<0, 1>>}

\* the group sections of the frame that the crop test keeps under region rg
Kept(rg) ==
    {k \in TocKinds(toc) :
        IsGroupKind(k) /\ crop_keeps(header, rg, k, overflow_checks) = Ok(TRUE)}

\* C16: whatever the interleaving of the main task and the two tasks and the
\* order in which queued sections were parsed, a load_cropped_par that
\* returns Ok leaves the FrameData that the frame, its bytes and the region
\* of the call determine: the region is the planned one, the keys of
\* lf_group and group_pass are the kept sections, and each value is the parse
\* of its section's bytes.
C16_Determinism ==
    (op = "load_cropped_par" /\ pc = "idle" /\ IsOk(result) /\ ~is_single_entry(toc)) =>
        /\ Ok(region) = plan_region(Unwrap(data.lf_global),
                                    Val(translate_region(header, user_region,
                                                         overflow_checks)),
                                    overflow_checks)
        /\ DOMAIN data.lf_group = {k[3] : k \in {x \in Kept(region) : x[1] = "LfGroup"}}
        /\ DOMAIN data.group_pass =
              {<<k[2], k[3]>> : k \in {x \in Kept(region) : x[1] = "GroupPass"}}
        /\ \A k \in Kept(region) :
              /\ IsOk(Parse(k))
              /\ k[1] = "LfGroup" => data.lf_group[k[3]] = Val(Parse(k))
              /\ k[1] = "GroupPass" => data.group_pass[<<k[2], k[3]>>] = Val(Parse(k))

\* a cropped parallel load of the second group returned Ok: the first group
\* was dropped by the crop test, the second and the LF group were parsed
C16_Witness ==
    /\ op = "load_cropped_par" /\ pc = "idle" /\ IsOk(result)
    /\ user_region = SecondGroup
    /\ skipped = {KindGroupPass(0, 0)}
    /\ DOMAIN data.group_pass = {<<0, 1>>}
    /\ DOMAIN data.lf_group = {0}

(***************************************************************************)
(* Splines                                                                 *)
(***************************************************************************)
\* the product width x height of the frame, as a number
NumPixels(hd) == wide_mul(u32_as_usize(hd.width), u32_as_usize(hd.height)).val
SplineCap(hd) == usize_min(MAX_NUM_SPLINES, wide_half(wide_half(NumPixels(hd), 0), 0))
PointCap(hd) == usize_min(MAX_NUM_CONTROL_POINTS, wide_half(NumPixels(hd), 0))
\* varint + 1, as a number
Successor(varint) == Tail(wide_sum(u32_as_usize(varint), usize(1)))
\* a step of Splines::parse
ParseStep == op = "none" /\ op' = "Splines::parse"
\* the stream holds the bodies of the n splines it announces
HoldsBodies(dec, n) == n \in {usize(1), usize(2)} /\ Len(dec) >= 2 * n[4] + 3

\* C17: Splines::parse returns TooManySplines(n) iff n = varint + 1 exceeds
\* min(2^24, num_pixels / 4) and, when it reads the splines, TooManySplinePoints(p)
\* iff the num_points p of a spline exceeds min(2^20, num_pixels / 2), for
\* num_pixels the product width x height; on an error there is no Splines
\* value, and on success every QuantSpline has at most min(2^20, num_pixels / 2)
\* points_deltas.
C17_SplineCaps ==
    [][ParseStep =>
          LET n == Successor(decoder[1])
              p == u32_as_usize(decoder[2 * n[4] + 3])
          IN  /\ result' = Err(TooManySplines(n)) <=> wide_lt(SplineCap(header), n)
              /\ ~wide_lt(SplineCap(header), n) /\ HoldsBodies(decoder, n)
                     => (result' = Err(TooManySplinePoints(p))
                             <=> wide_lt(PointCap(header), p))
              /\ IsErr(result') => splines' = None
              /\ IsOk(result')
                     => \A i \in DOMAIN Val(result').quant_splines :
                            ~wide_lt(PointCap(header),
                                     usize(Len(Val(result').quant_splines[i].points_deltas)))
    ]_vars

\* An integer of any size is <<h, l>> for h * 2^16 + l with l in 0..2^16 - 1.
Big(v) == <<v \div Half, v % Half>>
BigAdd(a, b) == <<a[1] + b[1] + (a[2] + b[2]) \div Half, (a[2] + b[2]) % Half>>
BigPair(a) == <<Big(a[1]), Big(a[2])>>
BigPairAdd(a, b) == <<BigAdd(a[1], b[1]), BigAdd(a[2], b[2])>>
\* the value of an f32 coordinate <<"f32", m, e>>
BigOfF32(f) == <<f[2] \div 2^(16 - f[3]), (f[2] % 2^(16 - f[3])) * 2^f[3]>>
IsF32(f) == f[1] = "f32"
\* f is the number b as an f32: the cast of b when b is an i32, and b itself
\* otherwise
IsNumber(f, b) ==
    IF b[1] \in -(Half \div 2)..(Half \div 2 - 1)
    THEN f = F32(i32_as_f32(b[1] * Half + b[2]))
    ELSE IsF32(f) /\ BigOfF32(f) = b

RECURSIVE ExactPoints(_, _, _, _)
\* P_0..P_n of a start point and deltas: P_k = P_(k-1) + (d_1 + ... + d_k)
ExactPoints(deltas, sum, last, points) ==
    IF deltas = <<>> THEN points
    ELSE LET next(s) == ExactPoints(Tail(deltas), s, BigPairAdd(last, s),
                                    Append(points, BigPairAdd(last, s)))
         IN  next(BigPairAdd(sum, BigPair(Head(deltas))))

\* a step of QuantSpline::dequant on Unwrap(splines).quant_splines[it]
DequantStep == op' = "QuantSpline::dequant" /\ it' = it + 1
Dequantised == Unwrap(splines).quant_splines[it]

\* C18: dequant of a QuantSpline with start point s and deltas d_1..d_n emits
\* exactly n + 1 control points, P_0 = s and P_k = P_(k-1) + (d_1 + ... + d_k)
\* componentwise, each coordinate as an f32.
C18_ControlPoints ==
    [][DequantStep =>
          LET P == ExactPoints(Dequantised.points_deltas, BigPair(<<0, 0>>),
                               BigPair(Dequantised.start_point),
                               <<BigPair(Dequantised.start_point)>>)
          IN  /\ IsOk(result')
              /\ Len(Val(result').points) = Len(Dequantised.points_deltas) + 1
              /\ \A k \in DOMAIN Val(result').points :
                     /\ IsNumber(Val(result').points[k].x, P[k][1])
                     /\ IsNumber(Val(result').points[k].y, P[k][2])
    ]_vars

BigAbs(b) ==
    IF b[1] >= 0 THEN b
    ELSE IF b[2] = 0 THEN <<-b[1], 0>> ELSE <<-b[1] - 1, Half - b[2]>>
BigTimes(b, f) == <<b[1] * f + (b[2] * f) \div Half, (b[2] * f) % Half>>
\* a number b >= 0 in the limbs of a u64
BigAsWide(b) == <<0, b[1] \div Half, b[1] % Half, b[2]>>

RECURSIVE ExactManhattan(_, _, _)
\* the sum over k of |cur_delta_k.x| + |cur_delta_k.y| for cur_delta_k =
\* d_1 + ... + d_k
ExactManhattan(deltas, sum, total) ==
    IF deltas = <<>> THEN total
    ELSE LET next(s) ==
                 ExactManhattan(Tail(deltas), s,
                                BigAdd(total, BigAdd(BigAbs(s[1]), BigAbs(s[2]))))
         IN  next(BigPairAdd(sum, BigPair(Head(deltas))))

\* width_estimate of the spline being dequantised, for the correlations corr
WidthEstimate(corr) ==
    width_estimate(Dequantised.sigma_dct, inverted_qa(Unwrap(splines).quant_adjust),
                   log_color(Dequantised, inverted_qa(Unwrap(splines).quant_adjust), corr),
                   1, NumDctCoeffs)

\* C19: a dequant that returns has added exactly width_estimate * manhattan to
\* estimated_area, for manhattan the sum over k = 1..n of |cur_delta_k.x| +
\* |cur_delta_k.y| with cur_delta_k = d_1 + ... + d_k, and dequant never
\* decreases estimated_area.
C19_Manhattan ==
    [][DequantStep =>
          /\ IsOk(result')
                 => <<0>> \o estimated_area'
                        = wide_sum(estimated_area,
                                   BigAsWide(BigTimes(
                                       ExactManhattan(Dequantised.points_deltas,
                                                      BigPair(<<0, 0>>), Big(0)),
                                       WidthEstimate(Val(result').xyb_dct[4]))))
          /\ ~wide_lt(estimated_area', estimated_area)
    ]_vars

\* get_upsampled_points has returned for the Spline in `spline`
Upsampled == op = "Spline::get_upsampled_points" /\ pc = "idle"

\* C20: for a Spline with n >= 2 control points get_upsampled_points returns
\* exactly 16 * (n - 1) + 1 points, the point at index 16 * k being control
\* point k (the first at index 0 and the last at index 16 * (n - 1)); for
\* n = 1 it returns exactly that point.
C20_UpsampledSize ==
    op = "Spline::get_upsampled_points"
        => /\ IsOk(result) /\ IsSome(upsampled)
           /\ LET points == Unwrap(spline).points
                  n == Len(Unwrap(spline).points)
              IN  /\ n >= 2
                         => /\ Len(Unwrap(upsampled)) = 16 * (n - 1) + 1
                            /\ \A k \in 0..(n - 1) :
                                   Unwrap(upsampled)[16 * k + 1] = points[k + 1]
                  /\ n = 1 => Unwrap(upsampled) = <<points[1]>>

\* the control points of a spline of three points are upsampled to 33 points
C20_Witness ==
    /\ Upsampled
    /\ Len(Unwrap(spline).points) = 3
    /\ Len(Unwrap(upsampled)) = 33
    /\ Unwrap(upsampled)[17] = Unwrap(spline).points[2]
    /\ Unwrap(upsampled)[2] # Unwrap(spline).points[1]

\* C21: for a Spline with exactly one control point p get_samples returns
\* exactly one arc, located at p with length 1.
C21_SinglePointSamples ==
    op = "Spline::get_samples" /\ Len(Unwrap(spline).points) = 1
        => result = Ok(<<SplineArc(Unwrap(spline).points[1], F32(<<1, 0>>))>>)

(***************************************************************************)
(* The loaders, continued                                                  *)
(***************************************************************************)
\* the section of kind k has its entry in data
Stored(fd, k) ==
    CASE k[1] = "LfGroup" -> k[3] \in DOMAIN fd.lf_group
      [] k[1] = "GroupPass" -> <<k[2], k[3]>> \in DOMAIN fd.group_pass
      [] OTHER -> TRUE

\* C22: in the serial loader, between two sections and at the return, no
\* section whose dependencies are all present is left in pending_groups; when
\* load_all returns Ok over a TOC that has LfGlobal and HfGlobal,
\* pending_groups is empty and every LfGroup and GroupPass section of the TOC
\* has its entry in data.lf_group or data.group_pass.
C22_PendingDrained ==
    /\ op = "load_all" /\ pc \in {"load_all_loop", "idle"}
           => \A k \in DOMAIN pending_groups : ~dispatch_parses(data, k)
    /\ ( /\ op = "load_all" /\ pc = "idle" /\ IsOk(result)
         /\ {KindLfGlobal, KindHfGlobal} \subseteq TocKinds(toc) )
           => /\ DOMAIN pending_groups = {}
              /\ \A k \in TocKinds(toc) : Stored(data, k)

\* the map of data that holds the sections of the kind of k, and the key of k
MapOf(fd, k) == IF k[1] = "LfGroup" THEN fd.lf_group ELSE fd.group_pass
KeyOf(k) == IF k[1] = "LfGroup" THEN k[3] ELSE <<k[2], k[3]>>

\* the step is a read_group of a serial loader on the section of kind k: one
\* of load_all after its skip_to_bookmark, or one of load_cropped on a
\* section its crop test keeps, buffered or after its skip_to_bookmark
ReadGroupStep(k) ==
    \/ /\ pc = "load_all_loop" /\ it <= Len(toc)
       /\ k = toc[it].kind /\ k \in read'
    \/ /\ pc = "load_cropped_loop"
       /\ crop_keeps(header, region, k, overflow_checks) = Ok(TRUE)
       /\ IF pending # <<>> THEN k = Head(pending)[1].kind
          ELSE it <= Len(toc) /\ k = toc[it].kind /\ k \in read'

\* C23: a read_group of the serial loaders on an LfGroup or GroupPass section
\* whose dependencies are present (lf_global, and for a GroupPass a read
\* hf_global) parses it: it leaves pending_groups alone and either inserts the
\* section at its key or fails and leaves data alone; otherwise it parks the
\* raw bytes under the kind and leaves data alone.  No key is both in
\* pending_groups and in the map of its kind in data.
C23_DispatchByKind ==
    /\ [][\A k \in {KindLfGroup(0), KindGroupPass(0, 0), KindGroupPass(0, 1)} :
             ReadGroupStep(k) =>
                 IF dispatch_parses(data, k)
                 THEN /\ pending_groups' = pending_groups
                      /\ IF pc' = pc
                         THEN /\ KeyOf(k) \in DOMAIN MapOf(data', k)
                              /\ KeyOf(k) \notin DOMAIN MapOf(data, k)
                         ELSE data' = data
                 ELSE /\ pc' = pc
                      /\ data' = data
                      /\ pending_groups'
                             = MapInsert(pending_groups, k, SectionBytes(toc, Source, k))
       ]_vars
    /\ [](\A k \in DOMAIN pending_groups : ~Stored(data, k))

\* load_all has parked LfGroup(0), which came before LfGlobal, and has parsed
\* and inserted GroupPass(0, 0), which came after both globals
C23_Witness ==
    /\ op = "load_all"
    /\ DOMAIN pending_groups = {KindLfGroup(0)}
    /\ DOMAIN data.group_pass = {<<0, 0>>}
    /\ DOMAIN data.lf_group = {}

\* a loader is called on a frame whose TOC has a single entry
SingleEntryCall ==
    /\ op = "none" /\ op' \in {"load_all", "load_cropped", "load_cropped_par"}
    /\ is_single_entry(toc)

\* the four sections read one after the other from the offset of the entry
AtEntry == [bitstream EXCEPT !.pos = toc[1].offset]
LinearLfGlobal == read_lf_global(header, AtEntry, TRUE)
LinearLfGroup == read_lf_group(header, LinearLfGlobal.bs, Val(LinearLfGlobal.r), 0, TRUE)
LinearHfGlobal == read_hf_global(header, LinearLfGroup.bs, TRUE)
LinearPassGroup ==
    read_group_pass(header, LinearHfGlobal.bs, Val(LinearLfGlobal.r),
                    Val(LinearHfGlobal.r), 0, 0, TRUE)

\* C24: a call of load_all, load_cropped or load_cropped_par on a frame with
\* a single-entry TOC ends in that one step, whatever the region.  When it
\* returns Ok, LfGlobal, LfGroup(0), HfGlobal and GroupPass(0, 0) have been
\* parsed in that order from the offset of the entry: data holds exactly these
\* four values, lf_group under key 0 alone and group_pass under (0, 0) alone,
\* and the bitstream stands at the end of the entry.  When it fails, data is
\* unchanged.
C24_SingleEntry ==
    [][SingleEntryCall =>
          /\ pc' \in {"idle", "panicked"}
          /\ IF IsOk(result')
             THEN /\ IsOk(LinearLfGlobal.r) /\ IsOk(LinearLfGroup.r)
                  /\ IsOk(LinearHfGlobal.r) /\ IsOk(LinearPassGroup.r)
                  /\ data'.lf_global = Some(Val(LinearLfGlobal.r))
                  /\ DOMAIN data'.lf_group = {0}
                  /\ data'.lf_group[0] = Val(LinearLfGroup.r)
                  /\ data'.hf_global = Some(Val(LinearHfGlobal.r))
                  /\ DOMAIN data'.group_pass = {<<0, 0>>}
                  /\ data'.group_pass[<<0, 0>>] = Val(LinearPassGroup.r)
                  /\ bitstream'.pos = toc[1].offset + toc[1].size
             ELSE data' = data
    ]_vars

\* complete is called
CompleteStep == op # "complete" /\ op' = "complete"

\* the number of keys of the map m that come before k, in the order lt
Rank(m, k, lt(_, _)) == Cardinality({j \in DOMAIN m : lt(j, k)})
LtKey(a, b) == a < b

\* C25: when lf_global is present, complete returns Ok; the sub-images the
\* LF-global image has received grow by one per entry of lf_group, in
\* ascending key order, followed by one per entry of group_pass, in ascending
\* (pass, group) order; the inverse transform is applied once more; lf_group
\* and group_pass are empty afterwards and hf_global is as it was.  When
\* lf_global is None, complete returns IncompleteFrameData("lf_global") and
\* leaves data unchanged.
C25_CompleteAssembles ==
    [][CompleteStep =>
          IF IsSome(data.lf_global)
          THEN LET before == Unwrap(data.lf_global)
                   after == Unwrap(data'.lf_global)
                   base == Len(before.copied)
                   nlf == Cardinality(DOMAIN data.lf_group)
               IN  /\ IsOk(result')
                   /\ IsSome(data'.lf_global)
                   /\ after.src = before.src
                   /\ Len(after.copied) = base + nlf + Cardinality(DOMAIN data.group_pass)
                   /\ SubSeq(after.copied, 1, base) = before.copied
                   /\ \A k \in DOMAIN data.lf_group :
                          after.copied[base + Rank(data.lf_group, k, LtKey) + 1]
                              = data.lf_group[k].mlf_group
                   /\ \A k \in DOMAIN data.group_pass :
                          after.copied[base + nlf + Rank(data.group_pass, k, LtPairKey) + 1]
                              = data.group_pass[k].modular
                   /\ after.inverse_applied = before.inverse_applied + 1
                   /\ DOMAIN data'.lf_group = {} /\ DOMAIN data'.group_pass = {}
                   /\ data'.hf_global = data.hf_global
          ELSE /\ result' = Err(IncompleteFrameData("lf_global"))
               /\ data' = data
    ]_vars

\* complete has assembled a frame of one LF group and two pass groups
C25_Witness ==
    /\ op = "complete" /\ IsOk(result)
    /\ IsSome(data.lf_global)
    /\ Len(Unwrap(data.lf_global).copied) = 3
    /\ Unwrap(data.lf_global).inverse_applied = 1
    /\ DOMAIN data.lf_group = {} /\ DOMAIN data.group_pass = {}

\* C26: when load_cropped, called without region on a reader that does not
\* fail, has returned, its result, the FrameData and pending_groups are those
\* load_all leaves on the same frame and the same bitstream.
C26_CroppedWithoutRegionIsLoadAll ==
    ( /\ op = "load_cropped" /\ pc \in {"idle", "panicked"}
      /\ user_region = None
      /\ result # Err(IoError) )
    => /\ result = load_all_run(header, toc, Source).r
       /\ data = load_all_run(header, toc, Source).data
       /\ pending_groups = load_all_run(header, toc, Source).pending_groups

LoaderOps == {"load_all", "load_cropped", "load_cropped_par"}

\* C27: before any call data.hf_global is Some(None) on a modular-only frame
\* and None otherwise; on a modular-only frame data.hf_global is Some(None)
\* whenever a call of a loader has returned, with Ok or with an error; no step
\* of a loader turns a present data.lf_global into None.
C27_HfGlobalReadState ==
    /\ [](op = "none" =>
             data.hf_global = IF header.encoding = Modular THEN Some(None) ELSE None)
    /\ []((header.encoding = Modular /\ op \in LoaderOps /\ pc = "idle")
             => data.hf_global = Some(None))
    /\ [][(op' \in LoaderOps /\ IsSome(data.lf_global)) => IsSome(data'.lf_global)]_vars

====
